---- MODULE Spec2Model ----
(***************************************************************************)
(* Model of the Social Security claiming calculator's calculation core:    *)
(* the SSA rule tables, the benefit calculator (ssaBenefits), the          *)
(* financial projector (financialProjections) and the breakeven analyzer   *)
(* (breakeven).                                                            *)
(*                                                                         *)
(* JavaScript numbers are modelled as exact rationals ([n, d] in lowest    *)
(* terms, or wide when an integer exceeds TLC's), so every formula of the  *)
(* source is evaluated with the source's operations in the source's        *)
(* order, without IEEE-754 rounding.                                       *)
(* A Date is modelled by the year its getFullYear() returns.               *)
(***************************************************************************)
EXTENDS Integers, Sequences, FiniteSets, TLC

\* call, result, pc: the call being made (its function and arguments), what
\* it returned, and whether it has returned.
\* now, fraTable, held, earlier: the environment of a session of calls: the
\* calendar year of the clock, the contents of the FRA_TABLE object, the FRA
\* object the caller holds from the last return, and the call made before.
\* store, list, inFlight: the IndexedDB entries 'scenario:<id>', the entry
\* 'scenario-list', and the storage calls that have started.
VARIABLES call, result, pc, now, fraTable, held, earlier, store, list, inFlight

vars == << call, result, pc, now, fraTable, held, earlier, store, list, inFlight >>

sessionVars == << now, fraTable, held, earlier >>

storageVars == << store, list, inFlight >>

(***************************************************************************)
(* Bounds of the model.                                                    *)
(***************************************************************************)
\* birth years range this many years below 1943 and above 1960
MaxYearsOutside == 2
\* claiming ages range this many months below 62 and above 70
MaxMonthsOutside == 2
\* base amounts are 0, 1500, ..., 1500 * MaxAmountSteps
MaxAmountSteps == 2
\* COLA / inflation rates are 0, 2.5, ..., 2.5 * MaxRateSteps percent
MaxRateSteps == 2
\* projections end at most this many years after the claiming year
MaxProjYears == 3
\* longest list of yearly benefits handed to calculateCumulativeBenefits
MaxBenefitRows == 3
\* longest cumulative series handed to findBreakevenAge
MaxSeriesLen == 3
\* cumulative values of those series range over 0 .. MaxCumValue
MaxCumValue == 3
\* the second series starts up to this many years after the first
MaxStartOffset == 1
\* FRA arguments range this many years below 66 and above 67
MaxFRAYearsOutside == 1
\* projections claim at 62, 62.5, ..., 62 + MaxClaimHalfYears / 2
MaxClaimHalfYears == 4
\* amounts of hand-made yearly benefit rows range over -1 .. MaxBenefitValue
MaxBenefitValue == 1
\* scenarios claim at 61, 62, ..., 61 + MaxScenarioClaimYears
MaxScenarioClaimYears == 3
\* long projections end at 100, 95, ..., 100 - 5 * MaxLifetimeSteps
MaxLifetimeSteps == 3
\* calculateAllBreakevens compares up to this many scenarios
MaxScenarios == 3
\* whose cumulative values range over 0 .. MaxComparedValue
MaxComparedValue == 2
\* projectMaxBenefitAtFRA is called in 2024 .. 2024 + MaxCurrentYears
MaxCurrentYears == 2
\* and for people who reach FRA up to this many years after 2025
MaxYearsUntilFRA == 15
\* the clock of a session shows 2024 .. 2024 + MaxSessionYears
MaxSessionYears == 1
\* applyInflation is called in a session with at most this many rows
MaxSessionRows == 2
\* saved scenarios have the COLA rates 0, 3, ..., 3 * MaxStoredRateSteps
MaxStoredRateSteps == 1
\* storage calls made one after the other
MaxSequentialCalls == 3
\* storage calls made at the same time
MaxConcurrentCalls == 2
\* rows of a series handed to findBreakevenAgeWithToggles
MaxDisplayedLen == 2
\* calculateOpportunityCost is called with claiming ages up to
\* 62 + MaxOpportunityHalfYears / 2
MaxOpportunityHalfYears == 3
\* and at the ages 62 .. 62 + MaxOpportunityYears
MaxOpportunityYears == 3

(***************************************************************************)
(* Integers of any size.                                                   *)
(***************************************************************************)
Abs(i) == IF i < 0 THEN -i ELSE i
Max2(a, b) == IF a >= b THEN a ELSE b
Min2(a, b) == IF a <= b THEN a ELSE b

RECURSIVE GCD(_, _)
GCD(a, b) == IF b = 0 THEN a ELSE GCD(b, a % b)

\* the largest integer of the arithmetic of TLC, 2^31 - 1
MaxInt == (2^30 - 1) + 2^30

\* x * y and x + y stay within -MaxInt .. MaxInt
SafeProduct(x, y) == x = 0 \/ y = 0 \/ Abs(x) <= MaxInt \div Abs(y)
SafeSum(x, y) == Abs(x) <= MaxInt - Abs(y)

\* A natural number of any size is the sequence of its digits in base Base,
\* lowest digit first, without a highest digit 0; << >> is zero.
Base == 10^4

RECURSIVE LimbsOf(_)
LimbsOf(i) == IF i = 0 THEN << >> ELSE << i % Base >> \o LimbsOf(i \div Base)

RECURSIVE IntOfLimbs(_)
IntOfLimbs(l) == IF l = << >> THEN 0 ELSE l[1] + Base * IntOfLimbs(Tail(l))

Limb(a, i) == IF i <= Len(a) THEN a[i] ELSE 0

MaxOf(S) == CHOOSE m \in S : \A k \in S : k <= m
MinOf(S) == CHOOSE m \in S : \A k \in S : m <= k

\* l without its highest digits 0
LTrim(l) ==
    LET nz == {i \in 1..Len(l) : l[i] # 0}
    IN  IF nz = {} THEN << >> ELSE SubSeq(l, 1, MaxOf(nz))

\* the number of lowest digits 0 of a # 0
LowZeros(a) == MinOf({i \in 1..Len(a) : a[i] # 0}) - 1

\* -1, 0 or 1 as a < b, a = b or a > b
LCmp(a, b) ==
    IF Len(a) < Len(b) THEN -1
    ELSE IF Len(a) > Len(b) THEN 1
    ELSE LET diff == {i \in 1..Len(a) : a[i] # b[i]}
         IN  IF diff = {} THEN 0
             ELSE IF a[MaxOf(diff)] < b[MaxOf(diff)] THEN -1 ELSE 1

\* a + b: digit i receives a carry when a lower digit overflows and every
\* digit in between is Base - 1
LCarry(s, i) ==
    \E j \in 1..(i - 1) :
        s[j] >= Base /\ \A k \in (j + 1)..(i - 1) : s[k] = Base - 1

LCarried(s) ==
    LTrim([i \in 1..Len(s) |-> (s[i] + (IF LCarry(s, i) THEN 1 ELSE 0)) % Base])

LAdd(a, b) ==
    IF a = << >> THEN b
    ELSE IF b = << >> THEN a
    ELSE LCarried([i \in 1..(Max2(Len(a), Len(b)) + 1) |->
                      Limb(a, i) + Limb(b, i)])

\* a - b for a >= b: digit i lends when a lower digit is negative and every
\* digit in between is 0
LBorrow(t, i) ==
    \E j \in 1..(i - 1) : t[j] < 0 /\ \A k \in (j + 1)..(i - 1) : t[k] = 0

LBorrowed(t) ==
    LTrim([i \in 1..Len(t) |-> (t[i] - (IF LBorrow(t, i) THEN 1 ELSE 0)) % Base])

LSub(a, b) ==
    IF b = << >> THEN a
    ELSE LBorrowed([i \in 1..Len(a) |-> a[i] - Limb(b, i)])

\* a * Base^k
LShiftBy(a, k) == IF a = << >> THEN a ELSE [i \in 1..k |-> 0] \o a

\* a * s for a digit s
LMulSmall(a, s) ==
    IF s = 0 \/ a = << >> THEN << >>
    ELSE
    LAdd(LTrim([i \in 1..Len(a) |-> (a[i] * s) % Base]),
         LTrim([i \in 1..(Len(a) + 1) |-> IF i = 1 THEN 0 ELSE (a[i - 1] * s) \div Base]))

\* the sum of a * b[j] * Base^(j - 1) for j in first .. last, the range
\* being halved so that the evaluation stays shallow
RECURSIVE LMulRange(_, _, _, _)
LMulRange(a, b, first, last) ==
    IF first = last THEN LShiftBy(LMulSmall(a, b[first]), first - 1)
    ELSE LAdd(LMulRange(a, b, first, (first + last) \div 2),
              LMulRange(a, b, (first + last) \div 2 + 1, last))

\* a * b
LMul(a, b) ==
    IF a = << >> \/ b = << >> THEN << >> ELSE LMulRange(a, b, 1, Len(b))

\* a * m for an integer m in 0 .. MaxInt
LMulInt(a, m) == LMul(a, LimbsOf(m))

\* quotient and remainder of a by an integer m in 1 .. MaxInt \div Base,
\* from digit i down, rem being the remainder of the digits above i
RECURSIVE LDivIntAt(_, _, _, _, _)
LDivIntAt(a, m, i, q, rem) ==
    IF i = 0 THEN [q |-> LTrim(q), r |-> rem]
    ELSE LDivIntAt(a, m, i - 1, << (rem * Base + a[i]) \div m >> \o q,
                   (rem * Base + a[i]) % m)

LDivInt(a, m) == LDivIntAt(a, m, Len(a), << >>, 0)

\* An integer of any size is a sign and a magnitude.
ZMake(neg, mag) == [neg |-> neg /\ mag # << >>, mag |-> mag]
ZOf(i) == [neg |-> i < 0, mag |-> LimbsOf(Abs(i))]
ZFits(z) == Len(z.mag) <= 2 \/ (Len(z.mag) = 3 /\ z.mag[3] <= 20)
IntOf(z) == IF z.neg THEN -IntOfLimbs(z.mag) ELSE IntOfLimbs(z.mag)
ZNeg(z) == ZMake(~z.neg, z.mag)

ZAdd(a, b) ==
    IF a.neg = b.neg THEN ZMake(a.neg, LAdd(a.mag, b.mag))
    ELSE IF LCmp(a.mag, b.mag) >= 0 THEN ZMake(a.neg, LSub(a.mag, b.mag))
    ELSE ZMake(b.neg, LSub(b.mag, a.mag))

ZMul(a, b) == ZMake(a.neg # b.neg, LMul(a.mag, b.mag))

\* a * m * Base^k for an integer m in 0 .. MaxInt
ZScale(a, m, k) == ZMake(a.neg, LShiftBy(LMulInt(a.mag, m), k))

(***************************************************************************)
(* JavaScript number arithmetic, as exact rationals.  While the operations *)
(* stay within the integers of TLC the rational is [n, d]: n / d in lowest *)
(* terms with d > 0.  A rational that needs larger integers is marked      *)
(* wide: it is n / (q * Base^e) for an integer n of any size, an integer   *)
(* q > 0 without the factors 2 and 5, and e >= 0.  A wide rational is not  *)
(* in lowest terms, so wide rationals are compared with Eq and Less, never *)
(* with =.                                                                 *)
(***************************************************************************)
Wide(a) == "wide" \in DOMAIN a

\* the number n / d (d # 0), in lowest terms with a positive denominator
Rat(n, d) ==
    LET g == GCD(Abs(n), Abs(d))
        s == IF d < 0 THEN -1 ELSE 1
    IN  [n |-> s * (n \div g), d |-> s * (d \div g)]

Num(i) == [n |-> i, d |-> 1]

\* n / (q * Base^e), as [n, d] when these integers fit
MakeRatAt(m, q, f) ==
    IF f <= 2 /\ ZFits(m) /\ SafeProduct(q, Base^f)
    THEN Rat(IntOf(m), q * Base^f)
    ELSE [n |-> m, q |-> q, e |-> f, wide |-> TRUE]

\* n # 0 without its z lowest digits, over q * Base^(e - z)
MakeRatWithout(n, q, e, z) ==
    MakeRatAt(ZMake(n.neg, SubSeq(n.mag, z + 1, Len(n.mag))), q, e - z)

MakeRat(n, q, e) ==
    IF n.mag = << >> THEN Num(0)
    ELSE MakeRatWithout(n, q, e, Min2(LowZeros(n.mag), e))

\* n / (q * Base^e) once the factors 2 and 5 of q are moved into Base^e
RECURSIVE Reduce(_, _, _)
Reduce(n, q, e) ==
    LET g == GCD(q, Base * Base)
        j == IF Base % g = 0 THEN 1 ELSE 2
    IN  IF g = 1 THEN [n |-> n, q |-> q, e |-> e, wide |-> TRUE]
        ELSE Reduce(ZScale(n, Base^j \div g, 0), q \div g, e + j)

WideOf(a) == IF Wide(a) THEN a ELSE Reduce(ZOf(a.n), a.d, 0)

\* both operands of a binary operation, wide
WideBoth(a, b) == [i \in 1..2 |-> WideOf(IF i = 1 THEN a ELSE b)]

\* -1, 0 or 1 as a < 0, a = 0 or a > 0
Sign(a) ==
    IF Wide(a) THEN (IF a.n.mag = << >> THEN 0 ELSE IF a.n.neg THEN -1 ELSE 1)
    ELSE IF a.n < 0 THEN -1 ELSE IF a.n = 0 THEN 0 ELSE 1

ZSum(s) == ZAdd(s[1], s[2])

\* the sum of the wide w[1] and w[2] over their common denominator
\* q * Base^e
WidePlusAt(w, q, e) ==
    MakeRat(ZSum([i \in 1..2 |-> ZScale(w[i].n, q \div w[i].q, e - w[i].e)]),
            q, e)

WidePlusOf(w) ==
    WidePlusAt(w, (w[1].q \div GCD(w[1].q, w[2].q)) * w[2].q,
               Max2(w[1].e, w[2].e))

WidePlus(a, b) == WidePlusOf(WideBoth(a, b))

\* a + b = (a.n * fa + b.n * fb) / (fb * b.d) stays within the integers of
\* TLC
PlusFits(a, b, fa, fb) ==
    /\ SafeProduct(fb, b.d) /\ SafeProduct(a.n, fa)
    /\ SafeProduct(b.n, fb) /\ SafeSum(a.n * fa, b.n * fb)

PlusIsNarrow(a, b) ==
    /\ ~Wide(a)
    /\ ~Wide(b)
    /\ PlusFits(a, b, b.d \div GCD(a.d, b.d), a.d \div GCD(a.d, b.d))

NarrowPlusAt(a, b, fa, fb) == Rat(a.n * fa + b.n * fb, fb * b.d)

NarrowPlus(a, b) ==
    NarrowPlusAt(a, b, b.d \div GCD(a.d, b.d), a.d \div GCD(a.d, b.d))

\* a + b
Plus(a, b) == IF PlusIsNarrow(a, b) THEN NarrowPlus(a, b) ELSE WidePlus(a, b)

\* -a
Neg(a) == IF Wide(a) THEN [a EXCEPT !.n = ZNeg(a.n)] ELSE [n |-> -a.n, d |-> a.d]

\* a - b
Minus(a, b) == Plus(a, Neg(b))

WideTimesOf(w) ==
    MakeRat(ZMul(w[1].n, w[2].n), w[1].q * w[2].q, w[1].e + w[2].e)

WideTimes(a, b) == WideTimesOf(WideBoth(a, b))

\* a * b = ((a.n / g1) * (b.n / g2)) / ((a.d / g2) * (b.d / g1)) stays
\* within the integers of TLC
TimesFits(a, b, g1, g2) ==
    /\ SafeProduct(a.n \div g1, b.n \div g2)
    /\ SafeProduct(a.d \div g2, b.d \div g1)

TimesIsNarrow(a, b) ==
    /\ ~Wide(a)
    /\ ~Wide(b)
    /\ \/ a.n = 0
       \/ b.n = 0
       \/ TimesFits(a, b, GCD(Abs(a.n), b.d), GCD(Abs(b.n), a.d))

NarrowTimesAt(a, b, g1, g2) ==
    [n |-> (a.n \div g1) * (b.n \div g2), d |-> (a.d \div g2) * (b.d \div g1)]

NarrowTimes(a, b) ==
    IF a.n = 0 \/ b.n = 0 THEN Num(0)
    ELSE NarrowTimesAt(a, b, GCD(Abs(a.n), b.d), GCD(Abs(b.n), a.d))

\* a * b
Times(a, b) ==
    IF TimesIsNarrow(a, b) THEN NarrowTimes(a, b) ELSE WideTimes(a, b)

MakeRatOf(r) == MakeRat(r.n, r.q, r.e)

\* 1 / a, a # 0 (for a wide a, only when its n is an integer of TLC)
Inverse(a) ==
    IF Wide(a)
    THEN MakeRatOf(Reduce(ZMake(a.n.neg, LShiftBy(LimbsOf(a.q), a.e)),
                          IntOfLimbs(a.n.mag), 0))
    ELSE IF a.n < 0 THEN [n |-> -a.d, d |-> -a.n]
    ELSE [n |-> a.d, d |-> a.n]

\* a / b, b # 0
Over(a, b) == Times(a, Inverse(b))

\* a = b, a < b, a <= b
Eq(a, b) == Sign(Minus(a, b)) = 0
Less(a, b) == Sign(Minus(a, b)) < 0
LessEq(a, b) == Sign(Minus(a, b)) <= 0

\* quotient and remainder of the integer part of the numerator of the wide
\* a >= 0 by a.q (a.q at most MaxInt \div Base)
WideQuotient(a) ==
    LDivInt(IF a.e >= Len(a.n.mag) THEN << >>
            ELSE SubSeq(a.n.mag, a.e + 1, Len(a.n.mag)), a.q)

\* whether the wide a is an integer
WideExact(a) ==
    WideQuotient(a).r = 0 /\ \A i \in 1..a.e : Limb(a.n.mag, i) = 0

\* floor of the wide a >= 0, and whether a is it
WideFloor(a) ==
    [floor |-> IntOfLimbs(WideQuotient(a).q), exact |-> WideExact(a)]

\* Math.abs, Math.max, Math.min, Math.floor, Math.ceil
MathAbs(a) == IF Sign(a) < 0 THEN Neg(a) ELSE a
MathMax(a, b) == IF Less(a, b) THEN b ELSE a
MathMin(a, b) == IF Less(b, a) THEN b ELSE a
FloorOf(negative, f) ==
    IF ~negative THEN f.floor
    ELSE IF f.exact THEN -f.floor
    ELSE -f.floor - 1

MathFloor(a) ==
    IF ~Wide(a) THEN a.n \div a.d ELSE FloorOf(a.n.neg, WideFloor(a))
MathCeil(a) == -MathFloor(Neg(a))

\* floor of a as a number, of any size
FloorNum(a) ==
    IF ~Wide(a) THEN Num(a.n \div a.d)
    ELSE Minus(MakeRat(ZMake(a.n.neg, WideQuotient(a).q), 1, 0),
               Num(IF a.n.neg /\ ~WideExact(a) THEN 1 ELSE 0))

\* Math.round: halves are rounded up
MathRound(a) == FloorNum(Plus(a, Rat(1, 2)))

\* a * p when odd, else p
TimesIf(odd, a, p) == IF odd THEN Times(a, p) ELSE p

\* a^m for m >= 0, by the binary digits of m
RECURSIVE PowNat(_, _)
PowNat(a, m) ==
    IF m = 0 THEN Num(1)
    ELSE IF m = 1 THEN a
    ELSE TimesIf(m % 2 = 1, a, PowNat(Times(a, a), m \div 2))

\* Math.pow(a, k) for an integer k
InverseIf(negative, p) == IF negative THEN Inverse(p) ELSE p

MathPow(a, k) == InverseIf(k < 0, PowNat(a, Abs(k)))

(***************************************************************************)
(* SSA rules and constants.                                                *)
(***************************************************************************)
\* mutant: the entry of 1958 repeats the one of 1957
FRA_TABLE_1958As1957 ==
    [y \in 1943..1960 |->
        IF y <= 1954 THEN [years |-> 66, months |-> 0]
        ELSE IF y = 1955 THEN [years |-> 66, months |-> 2]
        ELSE IF y = 1956 THEN [years |-> 66, months |-> 4]
        ELSE IF y = 1957 THEN [years |-> 66, months |-> 6]
        ELSE IF y = 1958 THEN [years |-> 66, months |-> 6]
        ELSE IF y = 1959 THEN [years |-> 66, months |-> 10]
        ELSE [years |-> 67, months |-> 0]]

FRA_TABLE ==
    [y \in 1943..1960 |->
        IF y <= 1954 THEN [years |-> 66, months |-> 0]
        ELSE IF y = 1955 THEN [years |-> 66, months |-> 2]
        ELSE IF y = 1956 THEN [years |-> 66, months |-> 4]
        ELSE IF y = 1957 THEN [years |-> 66, months |-> 6]
        ELSE IF y = 1958 THEN [years |-> 66, months |-> 8]
        ELSE IF y = 1959 THEN [years |-> 66, months |-> 10]
        ELSE [years |-> 67, months |-> 0]]

\* 5 / 9 / 100, 5 / 12 / 100 and 2 / 3 / 100
EARLY_REDUCTION_RATE_36 == Rat(5, 9 * 100)
EARLY_REDUCTION_RATE_BEYOND == Rat(5, 12 * 100)
DELAYED_CREDIT_RATE == Rat(2, 3 * 100)
SPOUSAL_BENEFIT_RATE == Rat(1, 2)
MIN_CLAIMING_AGE == 62
MAX_CLAIMING_AGE == 70
MAX_BENEFIT_BY_YEAR == [y \in {2024, 2025} |-> IF y = 2024 THEN 3822 ELSE 4018]

(***************************************************************************)
(* Benefit calculator.                                                     *)
(***************************************************************************)
\* mutant: the guard for birth years before 1943 is missing, so those
\* years miss the table and take its default
calculateFRA_NoEarlyGuard(birthYear) ==
    IF birthYear >= 1960 THEN [years |-> 67, months |-> 0]
    ELSE IF birthYear \in DOMAIN FRA_TABLE THEN FRA_TABLE[birthYear]
    ELSE [years |-> 67, months |-> 0]

\* mutant: births before 1943 get the retirement age 65 of the 1937 rule
calculateFRA_Early65(birthYear) ==
    IF birthYear >= 1960 THEN [years |-> 67, months |-> 0]
    ELSE IF birthYear < 1943 THEN [years |-> 65, months |-> 0]
    ELSE IF birthYear \in DOMAIN FRA_TABLE THEN FRA_TABLE[birthYear]
    ELSE [years |-> 67, months |-> 0]

calculateFRA(birthYear) ==
    IF birthYear >= 1960 THEN [years |-> 67, months |-> 0]
    ELSE IF birthYear < 1943 THEN [years |-> 66, months |-> 0]
    ELSE IF birthYear \in DOMAIN FRA_TABLE THEN FRA_TABLE[birthYear]
    ELSE [years |-> 67, months |-> 0]

\* MAX_BENEFIT_BY_YEAR[currentYear] || MAX_BENEFIT_BY_YEAR[2025]
CurrentMaxBenefitIn(currentYear) ==
    IF currentYear \in DOMAIN MAX_BENEFIT_BY_YEAR
    THEN MAX_BENEFIT_BY_YEAR[currentYear]
    ELSE MAX_BENEFIT_BY_YEAR[2025]

\* fraYear - currentYear, fraYear being birthYear + Math.floor(fraAge)
YearsUntilFRAOf(birthYear, fra, currentYear) ==
    birthYear + MathFloor(Plus(Num(fra.years), Over(Num(fra.months), Num(12))))
        - currentYear

\* what projectMaxBenefitAtFRA returns for these values of its constants
ProjectedMaxBenefit(currentMaxBenefit, colaRate, yearsUntilFRA) ==
    IF yearsUntilFRA <= 0 THEN Num(currentMaxBenefit)
    ELSE MathRound(Times(Num(currentMaxBenefit),
                         MathPow(Plus(Num(1), colaRate), yearsUntilFRA)))

\* currentYear is new Date().getFullYear(), the year of the call
projectMaxBenefitAtFRA(birthYear, colaRate, currentYear) ==
    ProjectedMaxBenefit(CurrentMaxBenefitIn(currentYear), colaRate,
                        YearsUntilFRAOf(birthYear, calculateFRA(birthYear),
                                        currentYear))

fraToMonths(fra) == fra.years * 12 + fra.months

\* fra.years + fra.months / 12
getFRAAsDecimal(fra) == Plus(Num(fra.years), Over(Num(fra.months), Num(12)))

\* mutant: every month before FRA is reduced at the 5/9 % rate
calculateEarlyReductionPercentage_OneRate(claimingAge, fra) ==
    LET claimingMonths == Times(claimingAge, Num(12))
        fraMonths == Num(fra.years * 12 + fra.months)
        monthsBeforeFRA == Minus(fraMonths, claimingMonths)
    IN  IF LessEq(monthsBeforeFRA, Num(0)) THEN Num(0)
        ELSE Neg(Times(monthsBeforeFRA, EARLY_REDUCTION_RATE_36))

\* reductionPercentage for monthsBeforeFRA months
ReductionPercentage(monthsBeforeFRA) ==
    IF LessEq(monthsBeforeFRA, Num(36))
    THEN Times(monthsBeforeFRA, EARLY_REDUCTION_RATE_36)
    ELSE Plus(Times(Num(36), EARLY_REDUCTION_RATE_36),
              Times(Minus(monthsBeforeFRA, Num(36)),
                    EARLY_REDUCTION_RATE_BEYOND))

\* what calculateEarlyReductionPercentage returns for monthsBeforeFRA
EarlyReductionFor(monthsBeforeFRA) ==
    IF LessEq(monthsBeforeFRA, Num(0)) THEN Num(0)
    ELSE Neg(ReductionPercentage(monthsBeforeFRA))

\* monthsBeforeFRA = fraMonths - claimingMonths
calculateEarlyReductionPercentage(claimingAge, fra) ==
    EarlyReductionFor(Minus(Num(fraToMonths(fra)), Times(claimingAge, Num(12))))

\* mutant: the months after FRA are not capped at age 70
calculateDelayedCreditPercentage_NoCap(claimingAge, fra) ==
    LET claimingMonths == Times(claimingAge, Num(12))
        fraMonths == Num(fra.years * 12 + fra.months)
        monthsAfterFRA == Minus(claimingMonths, fraMonths)
    IN  IF LessEq(monthsAfterFRA, Num(0)) THEN Num(0)
        ELSE Times(monthsAfterFRA, DELAYED_CREDIT_RATE)

\* mutant: the credits stop a year before age 70
DelayedCreditFor_CappedAt69(monthsAfterFRA, maxMonths) ==
    IF LessEq(monthsAfterFRA, Num(0)) THEN Num(0)
    ELSE Times(MathMin(monthsAfterFRA, Minus(maxMonths, Num(12))),
               DELAYED_CREDIT_RATE)

\* what calculateDelayedCreditPercentage returns for monthsAfterFRA and
\* maxMonths: effectiveMonths = Math.min(monthsAfterFRA, maxMonths)
DelayedCreditFor(monthsAfterFRA, maxMonths) ==
    IF LessEq(monthsAfterFRA, Num(0)) THEN Num(0)
    ELSE Times(MathMin(monthsAfterFRA, maxMonths), DELAYED_CREDIT_RATE)

\* monthsAfterFRA = claimingMonths - fraMonths,
\* maxMonths = (MAX_CLAIMING_AGE - fraMonths / 12) * 12
calculateDelayedCreditPercentage(claimingAge, fra) ==
    DelayedCreditFor(Minus(Times(claimingAge, Num(12)), Num(fraToMonths(fra))),
                     Times(Minus(Num(MAX_CLAIMING_AGE),
                                 Over(Num(fraToMonths(fra)), Num(12))),
                           Num(12)))

\* mutant: only the lower bound is validated
ClaimingAgeRejected_NoMax(claimingAge) ==
    Less(claimingAge, Num(MIN_CLAIMING_AGE))

\* the claiming-age validation of calculateBenefit
ClaimingAgeRejected(claimingAge) ==
    Less(claimingAge, Num(MIN_CLAIMING_AGE))
        \/ Less(Num(MAX_CLAIMING_AGE), claimingAge)

\* mutant: the adjustment is measured against age 67 for every birth year
calculateBenefit_FRA67(baseAmount, birthYear, claimingAge) ==
    IF ClaimingAgeRejected(claimingAge)
    THEN [threw |-> TRUE]
    ELSE
      LET fra == [years |-> 67, months |-> 0]
          fraAge == getFRAAsDecimal(fra)
          adjustmentPercentage ==
              IF Less(claimingAge, fraAge)
              THEN calculateEarlyReductionPercentage(claimingAge, fra)
              ELSE IF Less(fraAge, claimingAge)
              THEN calculateDelayedCreditPercentage(claimingAge, fra)
              ELSE Num(0)
          monthlyBenefit ==
              IF Less(claimingAge, fraAge) \/ Less(fraAge, claimingAge)
              THEN Times(baseAmount, Plus(Num(1), adjustmentPercentage))
              ELSE baseAmount
      IN  [threw |-> FALSE,
           monthlyBenefit |-> monthlyBenefit,
           annualBenefit |-> Times(monthlyBenefit, Num(12)),
           adjustmentPercentage |-> Times(adjustmentPercentage, Num(100)),
           fra |-> calculateFRA(birthYear)]

\* the BenefitCalculation returned for the final values of monthlyBenefit
\* and adjustmentPercentage
BenefitCalculationOf(monthlyBenefit, adjustmentPercentage, fra) ==
    [threw |-> FALSE,
     monthlyBenefit |-> monthlyBenefit,
     annualBenefit |-> Times(monthlyBenefit, Num(12)),
     adjustmentPercentage |-> Times(adjustmentPercentage, Num(100)),
     fra |-> fra]

\* a branch that adjusts: monthlyBenefit = baseAmount * (1 +
\* adjustmentPercentage)
AdjustedBenefit(baseAmount, adjustmentPercentage, fra) ==
    BenefitCalculationOf(Times(baseAmount, Plus(Num(1), adjustmentPercentage)),
                         adjustmentPercentage, fra)

\* if (claimingAge < fraAge) .. else if (claimingAge > fraAge) ..
BenefitAtFRAAge(baseAmount, claimingAge, fra, fraAge) ==
    IF Less(claimingAge, fraAge)
    THEN AdjustedBenefit(baseAmount,
                         calculateEarlyReductionPercentage(claimingAge, fra),
                         fra)
    ELSE IF Less(fraAge, claimingAge)
    THEN AdjustedBenefit(baseAmount,
                         calculateDelayedCreditPercentage(claimingAge, fra),
                         fra)
    ELSE BenefitCalculationOf(baseAmount, Num(0), fra)

BenefitWithFRA(baseAmount, claimingAge, fra) ==
    BenefitAtFRAAge(baseAmount, claimingAge, fra, getFRAAsDecimal(fra))

calculateBenefit(baseAmount, birthYear, claimingAge) ==
    IF ClaimingAgeRejected(claimingAge)
    THEN [threw |-> TRUE]
    ELSE BenefitWithFRA(baseAmount, claimingAge, calculateFRA(birthYear))

\* mutant: the spousal base takes the spouse's whole adjustment, delayed
\* credits included
SpousalBenefitOf_WithCredits(partnerBaseAmount, spouseBirthYear, spouseClaimingAge) ==
    LET spousalBaseBenefit == Times(partnerBaseAmount, SPOUSAL_BENEFIT_RATE)
        spouseFRA == calculateFRA(spouseBirthYear)
        spouseFRAAge == getFRAAsDecimal(spouseFRA)
    IN  IF Less(spouseClaimingAge, spouseFRAAge)
        THEN Times(spousalBaseBenefit,
                   Plus(Num(1), calculateEarlyReductionPercentage(
                                    spouseClaimingAge, spouseFRA)))
        ELSE Times(spousalBaseBenefit,
                   Plus(Num(1), calculateDelayedCreditPercentage(
                                    spouseClaimingAge, spouseFRA)))

\* the spousalBenefit of calculateSpousalBenefit: 50% of the partner's
\* base, reduced when the spouse claims before the spouse's FRA
\* spousalBenefit for the spouse's FRA: spousalBaseBenefit, reduced when
\* the spouse claims before it
SpousalBenefitAt(spousalBaseBenefit, spouseFRA, spouseClaimingAge) ==
    IF Less(spouseClaimingAge, getFRAAsDecimal(spouseFRA))
    THEN Times(spousalBaseBenefit,
               Plus(Num(1), calculateEarlyReductionPercentage(
                                spouseClaimingAge, spouseFRA)))
    ELSE spousalBaseBenefit

SpousalBenefitOf(partnerBaseAmount, spouseBirthYear, spouseClaimingAge) ==
    SpousalBenefitAt(Times(partnerBaseAmount, SPOUSAL_BENEFIT_RATE),
                     calculateFRA(spouseBirthYear), spouseClaimingAge)

\* mutant: a tie goes to the spousal benefit
SpousalSource_TieSpousal(ownBenefit, spousalBenefit) ==
    IF Less(spousalBenefit, ownBenefit) THEN "own" ELSE "spousal"

\* ownBenefitCalc.monthlyBenefit >= spousalBenefit ? 'own' : 'spousal'
SpousalSource(ownBenefit, spousalBenefit) ==
    IF LessEq(spousalBenefit, ownBenefit) THEN "own" ELSE "spousal"

\* the SpousalBenefitResult returned; a throw of calculateBenefit is not
\* caught
SpousalBenefitResultOf(ownBenefitCalc, spousalBenefit) ==
    IF ownBenefitCalc.threw
    THEN [threw |-> TRUE]
    ELSE [threw |-> FALSE,
          monthlyBenefit |-> MathMax(ownBenefitCalc.monthlyBenefit,
                                     spousalBenefit),
          source |-> SpousalSource(ownBenefitCalc.monthlyBenefit,
                                   spousalBenefit),
          ownBenefit |-> ownBenefitCalc.monthlyBenefit,
          spousalBenefit |-> spousalBenefit]

calculateSpousalBenefit(ownBaseAmount, partnerBaseAmount, spouseBirthYear, spouseClaimingAge) ==
    SpousalBenefitResultOf(
        calculateBenefit(ownBaseAmount, spouseBirthYear, spouseClaimingAge),
        SpousalBenefitOf(partnerBaseAmount, spouseBirthYear,
                         spouseClaimingAge))

(***************************************************************************)
(* Financial projector.                                                    *)
(***************************************************************************)
\* mutant: the claiming year already counts as a year of COLA
yearsFromClaiming_ColaInFirstYear(age, claimingAge) ==
    age - MathCeil(claimingAge) + 1

\* age - Math.ceil(claimingAge)
yearsFromClaiming(age, claimingAge) == age - MathCeil(claimingAge)

\* mutant: COLA is added as simple interest instead of being compounded
ProjectedRow_SimpleInterest(startingBenefit, claimingAge, colaRate, birthYear, inflationRate, age) ==
    LET realGrowthRate == Minus(colaRate, inflationRate)
        monthlyBenefitTodaysDollars ==
            Times(startingBenefit,
                  Plus(Num(1),
                       Times(Over(realGrowthRate, Num(100)),
                             Num(yearsFromClaiming(age, claimingAge)))))
        nominalMonthlyBenefit ==
            Times(startingBenefit,
                  Plus(Num(1),
                       Times(Over(colaRate, Num(100)),
                             Num(yearsFromClaiming(age, claimingAge)))))
    IN  [age |-> age,
         year |-> birthYear + age,
         monthlyBenefit |-> nominalMonthlyBenefit,
         annualBenefit |-> Times(nominalMonthlyBenefit, Num(12)),
         colaAdjusted |-> nominalMonthlyBenefit,
         inflationAdjusted |-> monthlyBenefitTodaysDollars]

\* startingBenefit * Math.pow(1 + rate / 100, yearsFromClaiming)
CompoundedBenefit(startingBenefit, rate, years) ==
    Times(startingBenefit,
          MathPow(Plus(Num(1), Over(rate, Num(100))), years))

\* the row pushed for these values of the constants of the loop body
YearlyBenefitOf(age, year, nominalMonthlyBenefit, monthlyBenefitTodaysDollars) ==
    [age |-> age,
     year |-> year,
     monthlyBenefit |-> nominalMonthlyBenefit,
     annualBenefit |-> Times(nominalMonthlyBenefit, Num(12)),
     colaAdjusted |-> nominalMonthlyBenefit,
     inflationAdjusted |-> monthlyBenefitTodaysDollars]

\* the row pushed by one iteration of the loop of projectBenefits;
\* realGrowthRate = colaRate - inflationRate
ProjectedRow(startingBenefit, claimingAge, colaRate, birthYear, inflationRate, age) ==
    YearlyBenefitOf(age, birthYear + age,
                    CompoundedBenefit(startingBenefit, colaRate,
                                      yearsFromClaiming(age, claimingAge)),
                    CompoundedBenefit(startingBenefit,
                                      Minus(colaRate, inflationRate),
                                      yearsFromClaiming(age, claimingAge)))

\* for (age = ..; age <= endAge; age++) benefits.push(..): the rows pushed
\* by the iterations first .. last, the range being halved so that the
\* evaluation stays shallow
RECURSIVE ProjectLoop(_, _, _, _, _, _, _)
ProjectLoop(startingBenefit, claimingAge, colaRate, birthYear, inflationRate, first, last) ==
    IF first > last THEN << >>
    ELSE IF first = last
    THEN << ProjectedRow(startingBenefit, claimingAge, colaRate, birthYear,
                         inflationRate, first) >>
    ELSE ProjectLoop(startingBenefit, claimingAge, colaRate, birthYear,
                     inflationRate, first, (first + last) \div 2)
         \o ProjectLoop(startingBenefit, claimingAge, colaRate, birthYear,
                        inflationRate, (first + last) \div 2 + 1, last)

\* mutant: the loop starts at Math.floor(claimingAge)
projectBenefits_FloorStart(startingBenefit, claimingAge, endAge, colaRate, birthYear, inflationRate) ==
    ProjectLoop(startingBenefit, claimingAge, colaRate, birthYear,
                inflationRate, MathFloor(claimingAge), endAge)

projectBenefits(startingBenefit, claimingAge, endAge, colaRate, birthYear, inflationRate) ==
    ProjectLoop(startingBenefit, claimingAge, colaRate, birthYear,
                inflationRate, MathCeil(claimingAge), endAge)

\* the row applyInflation maps a benefit to
InflatedRow(benefit, inflationRate, baseYear) ==
    [benefit EXCEPT !.inflationAdjusted =
        Over(benefit.colaAdjusted,
             MathPow(Plus(Num(1), Over(inflationRate, Num(100))),
                     benefit.year - baseYear))]

\* baseYear is new Date().getFullYear() when the argument is omitted
applyInflation(benefits, inflationRate, baseYear) ==
    [i \in 1 .. Len(benefits) |-> InflatedRow(benefits[i], inflationRate, baseYear)]

\* mutant: the adjusted total adds the monthly amount, not the annual one
CumulativeRow_MonthlyAdjusted(benefit, runningTotal, runningAdjustedTotal) ==
    [age |-> benefit.age,
     year |-> benefit.year,
     cumulative |-> Plus(runningTotal, benefit.annualBenefit),
     cumulativeAdjusted |-> Plus(runningAdjustedTotal,
                                 benefit.inflationAdjusted)]

\* one iteration of the loop of calculateCumulativeBenefits: both running
\* totals are advanced and pushed with the benefit's age and year
CumulativeRow(benefit, runningTotal, runningAdjustedTotal) ==
    [age |-> benefit.age,
     year |-> benefit.year,
     cumulative |-> Plus(runningTotal, benefit.annualBenefit),
     cumulativeAdjusted |-> Plus(runningAdjustedTotal,
                                 Times(benefit.inflationAdjusted, Num(12)))]

\* for (const benefit of benefits) { ...; cumulative.push(..) }: the rows
\* pushed for benefits[first .. last] when the running totals before them
\* are runningTotal and runningAdjustedTotal, the range being halved so
\* that the evaluation stays shallow
RECURSIVE CumulativeLoop(_, _, _, _, _)
CumulativeLoop(benefits, first, last, runningTotal, runningAdjustedTotal) ==
    IF first > last THEN << >>
    ELSE IF first = last
    THEN << CumulativeRow(benefits[first], runningTotal,
                          runningAdjustedTotal) >>
    ELSE
      LET head == CumulativeLoop(benefits, first, (first + last) \div 2,
                                 runningTotal, runningAdjustedTotal)
      IN  head \o CumulativeLoop(benefits, (first + last) \div 2 + 1, last,
                                 head[Len(head)].cumulative,
                                 head[Len(head)].cumulativeAdjusted)

\* mutant: the first benefit is left out of the totals
calculateCumulativeBenefits_SkipsFirstRow(benefits) ==
    CumulativeLoop(benefits, 2, Len(benefits), Num(0), Num(0))

calculateCumulativeBenefits(benefits) ==
    CumulativeLoop(benefits, 1, Len(benefits), Num(0), Num(0))

\* the spouse data of a scenario is complete: includeSpouse &&
\* spouseBirthDate && spouseBenefitAmount !== undefined &&
\* spouseClaimingAge !== undefined
HasSpouseData(scenario) ==
    /\ scenario.includeSpouse
    /\ "spouseBirthYear" \in DOMAIN scenario
    /\ "spouseBenefitAmount" \in DOMAIN scenario
    /\ "spouseClaimingAge" \in DOMAIN scenario

\* mutant: the merged row's own annual benefit becomes the household's
MergedRow_HouseholdAsAnnual(yearlyBenefits, index, spouseBenefits) ==
    LET benefit == yearlyBenefits[index]
        found == {i \in 1 .. Len(spouseBenefits) :
                     spouseBenefits[i].age = benefit.age}
    IN  IF found = {}
        THEN [age |-> benefit.age, year |-> benefit.year,
              monthlyBenefit |-> benefit.monthlyBenefit,
              annualBenefit |-> benefit.annualBenefit,
              colaAdjusted |-> benefit.colaAdjusted,
              inflationAdjusted |-> benefit.inflationAdjusted,
              householdAnnualBenefit |-> Plus(benefit.annualBenefit, Num(0))]
        ELSE [age |-> benefit.age, year |-> benefit.year,
              monthlyBenefit |-> benefit.monthlyBenefit,
              annualBenefit |->
                  Plus(benefit.annualBenefit,
                       spouseBenefits[MinOf(found)].annualBenefit),
              colaAdjusted |-> benefit.colaAdjusted,
              inflationAdjusted |-> benefit.inflationAdjusted,
              spouseMonthlyBenefit |->
                  spouseBenefits[MinOf(found)].monthlyBenefit,
              spouseAnnualBenefit |->
                  spouseBenefits[MinOf(found)].annualBenefit,
              householdAnnualBenefit |->
                  Plus(benefit.annualBenefit,
                       spouseBenefits[MinOf(found)].annualBenefit)]

\* mutant: the spouse's row is taken by position, not by age
MergedRow_SpouseByIndex(yearlyBenefits, index, spouseBenefits) ==
    LET benefit == yearlyBenefits[index]
    IN  IF index > Len(spouseBenefits)
        THEN [age |-> benefit.age, year |-> benefit.year,
              monthlyBenefit |-> benefit.monthlyBenefit,
              annualBenefit |-> benefit.annualBenefit,
              colaAdjusted |-> benefit.colaAdjusted,
              inflationAdjusted |-> benefit.inflationAdjusted,
              householdAnnualBenefit |-> benefit.annualBenefit]
        ELSE [age |-> benefit.age, year |-> benefit.year,
              monthlyBenefit |-> benefit.monthlyBenefit,
              annualBenefit |-> benefit.annualBenefit,
              colaAdjusted |-> benefit.colaAdjusted,
              inflationAdjusted |-> benefit.inflationAdjusted,
              spouseMonthlyBenefit |-> spouseBenefits[index].monthlyBenefit,
              spouseAnnualBenefit |-> spouseBenefits[index].annualBenefit,
              householdAnnualBenefit |->
                  Plus(benefit.annualBenefit,
                       spouseBenefits[index].annualBenefit)]

\* the row yearlyBenefits.map makes of yearlyBenefits[index]: the spouse's
\* row of the same age is looked up; without one the two spouse fields are
\* undefined (here: absent) and the household amount is the individual's
MergedRow(yearlyBenefits, index, spouseBenefits) ==
    LET benefit == yearlyBenefits[index]
        found == {i \in 1 .. Len(spouseBenefits) :
                     spouseBenefits[i].age = benefit.age}
    IN  IF found = {}
        THEN [age |-> benefit.age, year |-> benefit.year,
              monthlyBenefit |-> benefit.monthlyBenefit,
              annualBenefit |-> benefit.annualBenefit,
              colaAdjusted |-> benefit.colaAdjusted,
              inflationAdjusted |-> benefit.inflationAdjusted,
              householdAnnualBenefit |-> Plus(benefit.annualBenefit, Num(0))]
        ELSE [age |-> benefit.age, year |-> benefit.year,
              monthlyBenefit |-> benefit.monthlyBenefit,
              annualBenefit |-> benefit.annualBenefit,
              colaAdjusted |-> benefit.colaAdjusted,
              inflationAdjusted |-> benefit.inflationAdjusted,
              spouseMonthlyBenefit |->
                  spouseBenefits[MinOf(found)].monthlyBenefit,
              spouseAnnualBenefit |->
                  spouseBenefits[MinOf(found)].annualBenefit,
              householdAnnualBenefit |->
                  Plus(benefit.annualBenefit,
                       spouseBenefits[MinOf(found)].annualBenefit)]

\* yearly.householdAnnualBenefit || yearly.annualBenefit
HouseholdAmount(yearly) ==
    IF "householdAnnualBenefit" \in DOMAIN yearly
       /\ Sign(yearly.householdAnnualBenefit) # 0
    THEN yearly.householdAnnualBenefit
    ELSE yearly.annualBenefit

\* cumulativeBenefits.forEach((cb, index) => ..): the rows first .. last
\* with their householdCumulative set, the running sum before them being
\* householdCumulative; the range is halved so that the evaluation stays
\* shallow
RECURSIVE HouseholdLoop(_, _, _, _, _)
HouseholdLoop(cumulativeBenefits, yearlyBenefits, first, last, householdCumulative) ==
    IF first > last THEN << >>
    ELSE IF first = last
    THEN << [age |-> cumulativeBenefits[first].age,
             year |-> cumulativeBenefits[first].year,
             cumulative |-> cumulativeBenefits[first].cumulative,
             cumulativeAdjusted |->
                 cumulativeBenefits[first].cumulativeAdjusted,
             householdCumulative |->
                 Plus(householdCumulative,
                      HouseholdAmount(yearlyBenefits[first]))] >>
    ELSE
      LET head == HouseholdLoop(cumulativeBenefits, yearlyBenefits, first,
                                (first + last) \div 2, householdCumulative)
      IN  head \o HouseholdLoop(cumulativeBenefits, yearlyBenefits,
                                (first + last) \div 2 + 1, last,
                                head[Len(head)].householdCumulative)

\* what projectScenario returns: with includeSpouse every cumulative row
\* gets its householdCumulative
ScenarioProjection(scenario, yearlyBenefits, cumulativeBenefits) ==
    [threw |-> FALSE,
     yearlyBenefits |-> yearlyBenefits,
     cumulativeBenefits |->
         IF scenario.includeSpouse
         THEN HouseholdLoop(cumulativeBenefits, yearlyBenefits, 1,
                            Len(cumulativeBenefits), Num(0))
         ELSE cumulativeBenefits]

\* const cumulativeBenefits = calculateCumulativeBenefits(yearlyBenefits)
ScenarioAccumulated(scenario, yearlyBenefits) ==
    ScenarioProjection(scenario, yearlyBenefits,
                       calculateCumulativeBenefits(yearlyBenefits))

\* yearlyBenefits = yearlyBenefits.map(..)
MergedBenefits(yearlyBenefits, spouseBenefits) ==
    [i \in 1 .. Len(yearlyBenefits) |->
        MergedRow(yearlyBenefits, i, spouseBenefits)]

\* the branch for complete spouse data, once spousalBenefit is calculated:
\* the spouse's benefits are projected and merged
ScenarioWithSpouse(scenario, yearlyBenefits, spousalBenefit) ==
    IF spousalBenefit.threw THEN [threw |-> TRUE]
    ELSE ScenarioAccumulated(
             scenario,
             MergedBenefits(
                 yearlyBenefits,
                 projectBenefits(spousalBenefit.monthlyBenefit,
                                 scenario.spouseClaimingAge,
                                 scenario.lifetimeAge, scenario.colaRate,
                                 scenario.spouseBirthYear,
                                 scenario.inflationRate)))

\* projectScenario after the individual's benefits are projected
ScenarioWithYearly(scenario, yearlyBenefits) ==
    IF HasSpouseData(scenario)
    THEN ScenarioWithSpouse(
             scenario, yearlyBenefits,
             calculateSpousalBenefit(scenario.spouseBenefitAmount,
                                     scenario.benefitAmount,
                                     scenario.spouseBirthYear,
                                     scenario.spouseClaimingAge))
    ELSE ScenarioAccumulated(scenario, yearlyBenefits)

\* projectScenario after calculateBenefit
ScenarioWithBenefit(scenario, individualBenefit) ==
    IF individualBenefit.threw THEN [threw |-> TRUE]
    ELSE ScenarioWithYearly(
             scenario,
             projectBenefits(individualBenefit.monthlyBenefit,
                             scenario.claimingAge, scenario.lifetimeAge,
                             scenario.colaRate, scenario.birthYear,
                             scenario.inflationRate))

\* a throw of calculateBenefit or calculateSpousalBenefit is not caught
projectScenario(scenario) ==
    ScenarioWithBenefit(
        scenario,
        calculateBenefit(scenario.benefitAmount, scenario.birthYear,
                         scenario.claimingAge))

\* Math.pow(base, exponent) where the exponent is a whole number or the
\* base is 1
PowerOfGrowth(base, exponent) ==
    CASE Eq(exponent, FloorNum(exponent)) ->
             MathPow(base, MathFloor(exponent))
      [] Eq(base, Num(1)) -> Num(1)

\* earlyBenefit * Math.pow(1 + growthRate / 100, yearsOfGrowth), with
\* yearsOfGrowth = currentAge - (earlyClaimingAge + i)
FutureValue(earlyClaimingAge, earlyBenefit, currentAge, growthRate, i) ==
    Times(earlyBenefit,
          PowerOfGrowth(Plus(Num(1), Over(growthRate, Num(100))),
                        Minus(currentAge, Plus(earlyClaimingAge, Num(i)))))

\* the loop of calculateOpportunityCost from i on, opportunityValue being
\* the sum so far
RECURSIVE OpportunityLoop(_, _, _, _, _, _, _)
OpportunityLoop(earlyClaimingAge, earlyBenefit, currentAge, growthRate, yearsOfEarlyBenefits, i, opportunityValue) ==
    IF ~Less(Num(i), yearsOfEarlyBenefits) THEN opportunityValue
    ELSE OpportunityLoop(earlyClaimingAge, earlyBenefit, currentAge,
                         growthRate, yearsOfEarlyBenefits, i + 1,
                         Plus(opportunityValue,
                              FutureValue(earlyClaimingAge, earlyBenefit,
                                          currentAge, growthRate, i)))

calculateOpportunityCost(earlyClaimingAge, earlyBenefit, delayedClaimingAge, currentAge, growthRate) ==
    IF Less(currentAge, delayedClaimingAge) THEN Num(0)
    ELSE OpportunityLoop(earlyClaimingAge, earlyBenefit, currentAge,
                         growthRate,
                         Minus(delayedClaimingAge, earlyClaimingAge), 0,
                         Num(0))

(***************************************************************************)
(* Breakeven analyzer.                                                     *)
(***************************************************************************)
\* data.find((b) => b.age === age): the index of the first such row, else 0
FindAge(data, age) ==
    LET found == {i \in 1..Len(data) : data[i].age = age}
    IN  IF found = {} THEN 0 ELSE MinOf(found)

\* data[0]?.age || 0
FirstAgeOr0(data) == IF Len(data) > 0 THEN data[1].age ELSE 0

\* data[data.length - 1]?.age || 100
LastAgeOr100(data) ==
    IF Len(data) > 0 /\ data[Len(data)].age # 0 THEN data[Len(data)].age
    ELSE 100

\* benefit.netValue !== undefined ? benefit.netValue
\*                                : benefit.cumulativeAdjusted
ComparedValue_AlwaysAdjusted(benefit) == benefit.cumulativeAdjusted

ComparedValue(benefit) ==
    IF "netValue" \in DOMAIN benefit THEN benefit.netValue
    ELSE benefit.cumulativeAdjusted


\* whether the loop of findBreakevenAge takes a sign change for a crossover
IsCrossover(previousDiff, diff) == Sign(Times(previousDiff, diff)) < 0

\* mutant: the age at which the sign change is seen is returned as it is,
\* without interpolation
BreakevenStep_NoInterpolation(scenario1Data, scenario2Data, minAge, age, previousDiff) ==
    LET i1 == FindAge(scenario1Data, age)
        i2 == FindAge(scenario2Data, age)
        diff == Minus(ComparedValue(scenario1Data[i1]),
                      ComparedValue(scenario2Data[i2]))
    IN  IF i1 = 0 \/ i2 = 0
        THEN [returned |-> FALSE, previousDiff |-> previousDiff]
        ELSE IF age > minAge /\ IsCrossover(previousDiff, diff)
        THEN [returned |-> TRUE, age |-> Num(age)]
        ELSE [returned |-> FALSE, previousDiff |-> diff]

\* the iteration at an age both series have a row for, diff being the
\* difference of their compared values
BreakevenAfterDiff(minAge, age, previousDiff, diff) ==
    IF age > minAge /\ IsCrossover(previousDiff, diff)
    THEN [returned |-> TRUE,
          age |-> Plus(Num(age - 1),
                       MathAbs(Over(previousDiff,
                                    Minus(diff, previousDiff))))]
    ELSE [returned |-> FALSE, previousDiff |-> diff]

\* the iteration for the rows found at the age: benefit1 is
\* scenario1Data[i1], benefit2 is scenario2Data[i2], an index 0 is no row
BreakevenAfterFind(scenario1Data, scenario2Data, minAge, age, previousDiff, i1, i2) ==
    IF i1 = 0 \/ i2 = 0
    THEN [returned |-> FALSE, previousDiff |-> previousDiff]
    ELSE BreakevenAfterDiff(minAge, age, previousDiff,
                            Minus(ComparedValue(scenario1Data[i1]),
                                  ComparedValue(scenario2Data[i2])))

\* one iteration of the loop of findBreakevenAge: it returns the breakeven
\* age, or goes on to the next age with its previousDiff
BreakevenStep(scenario1Data, scenario2Data, minAge, age, previousDiff) ==
    BreakevenAfterFind(scenario1Data, scenario2Data, minAge, age,
                       previousDiff, FindAge(scenario1Data, age),
                       FindAge(scenario2Data, age))

\* the iterations first .. last of the loop of findBreakevenAge, entered
\* with previousDiff, the range being halved so that the evaluation stays
\* shallow
RECURSIVE BreakevenLoop(_, _, _, _, _, _)
BreakevenLoop(scenario1Data, scenario2Data, minAge, first, last, previousDiff) ==
    IF first > last THEN [returned |-> FALSE, previousDiff |-> previousDiff]
    ELSE IF first = last
    THEN BreakevenStep(scenario1Data, scenario2Data, minAge, first,
                       previousDiff)
    ELSE
      LET head == BreakevenLoop(scenario1Data, scenario2Data, minAge, first,
                                (first + last) \div 2, previousDiff)
      IN  IF head.returned THEN head
          ELSE BreakevenLoop(scenario1Data, scenario2Data, minAge,
                             (first + last) \div 2 + 1, last,
                             head.previousDiff)

\* return null after the loop, unless the loop returned an age
BreakevenAgeOf(loop) ==
    IF loop.returned THEN [isNull |-> FALSE, age |-> loop.age]
    ELSE [isNull |-> TRUE]

\* the loop runs from minAge to maxAge
BreakevenBetween(scenario1Data, scenario2Data, minAge, maxAge) ==
    BreakevenAgeOf(BreakevenLoop(scenario1Data, scenario2Data, minAge, minAge,
                                 maxAge, Num(0)))

findBreakevenAge(scenario1Data, scenario2Data) ==
    BreakevenBetween(scenario1Data, scenario2Data,
                     Max2(FirstAgeOr0(scenario1Data),
                          FirstAgeOr0(scenario2Data)),
                     Min2(LastAgeOr100(scenario1Data),
                          LastAgeOr100(scenario2Data)))

\* mutant: with inflation the adjusted cumulative is displayed even when
\* the row has a netValue
getDisplayValue_NoNetValue(benefit, withInflation, withInvestment) ==
    IF withInvestment /\ "cumulativeWithInvestment" \in DOMAIN benefit
    THEN benefit.cumulativeWithInvestment
    ELSE IF withInflation THEN benefit.cumulativeAdjusted
    ELSE benefit.cumulative

\* the value the chart displays for a row: investment before inflation
\* before nominal (the yearlyBenefit argument is not read)
getDisplayValue(benefit, withInflation, withInvestment) ==
    IF withInvestment /\ "cumulativeWithInvestment" \in DOMAIN benefit
    THEN benefit.cumulativeWithInvestment
    ELSE IF withInflation
    THEN IF "netValue" \in DOMAIN benefit THEN benefit.netValue
         ELSE benefit.cumulativeAdjusted
    ELSE benefit.cumulative

\* the iteration of findBreakevenAgeWithToggles at an age both series have
\* a row for, diff being the difference of their display values
ToggledAfterDiff(minAge, age, previousDiff, diff) ==
    IF age > minAge /\ Sign(Times(previousDiff, diff)) < 0
    THEN [returned |-> TRUE,
          age |-> Plus(Num(age - 1),
                       MathAbs(Over(previousDiff,
                                    Minus(diff, previousDiff))))]
    ELSE [returned |-> FALSE, previousDiff |-> diff]

\* the iteration for the rows found at the age: benefit1 is benefits1[i1],
\* benefit2 is benefits2[i2], an index 0 is no row
ToggledAfterFind(benefits1, benefits2, withInflation, withInvestment, minAge, age, previousDiff, i1, i2) ==
    IF i1 = 0 \/ i2 = 0
    THEN [returned |-> FALSE, previousDiff |-> previousDiff]
    ELSE ToggledAfterDiff(minAge, age, previousDiff,
                          Minus(getDisplayValue(benefits1[i1], withInflation,
                                                withInvestment),
                                getDisplayValue(benefits2[i2], withInflation,
                                                withInvestment)))

\* one iteration of the loop of findBreakevenAgeWithToggles
ToggledStep(benefits1, benefits2, withInflation, withInvestment, minAge, age, previousDiff) ==
    ToggledAfterFind(benefits1, benefits2, withInflation, withInvestment,
                     minAge, age, previousDiff, FindAge(benefits1, age),
                     FindAge(benefits2, age))

\* the iterations first .. last of the loop, entered with previousDiff,
\* the range being halved so that the evaluation stays shallow
RECURSIVE ToggledLoop(_, _, _, _, _, _, _, _)
ToggledLoop(benefits1, benefits2, withInflation, withInvestment, minAge, first, last, previousDiff) ==
    IF first > last THEN [returned |-> FALSE, previousDiff |-> previousDiff]
    ELSE IF first = last
    THEN ToggledStep(benefits1, benefits2, withInflation, withInvestment,
                     minAge, first, previousDiff)
    ELSE
      LET head == ToggledLoop(benefits1, benefits2, withInflation,
                              withInvestment, minAge, first,
                              (first + last) \div 2, previousDiff)
      IN  IF head.returned THEN head
          ELSE ToggledLoop(benefits1, benefits2, withInflation,
                           withInvestment, minAge,
                           (first + last) \div 2 + 1, last,
                           head.previousDiff)

\* return null after the loop, unless the loop returned an age
ToggledAgeOf(loop) ==
    IF loop.returned THEN [isNull |-> FALSE, age |-> loop.age]
    ELSE [isNull |-> TRUE]

\* findBreakevenAgeWithToggles called without yearly series and growth
\* rates (they are optional): benefits1 and benefits2 stay scenario1Data
\* and scenario2Data, addInvestmentReturns is not applied
findBreakevenAgeWithToggles(scenario1Data, scenario2Data, withInflation, withInvestment) ==
    ToggledAgeOf(
        ToggledLoop(scenario1Data, scenario2Data, withInflation,
                    withInvestment,
                    Max2(FirstAgeOr0(scenario1Data),
                         FirstAgeOr0(scenario2Data)),
                    Max2(FirstAgeOr0(scenario1Data),
                         FirstAgeOr0(scenario2Data)),
                    Min2(LastAgeOr100(scenario1Data),
                         LastAgeOr100(scenario2Data)), Num(0)))

\* lastAge.netValue ?? lastAge.cumulativeAdjusted
FinalValue(data) ==
    IF "netValue" \in DOMAIN data[Len(data)] THEN data[Len(data)].netValue
    ELSE data[Len(data)].cumulativeAdjusted

\* scenarioNames.get(id) || fallback
NameOr(scenarioNames, id, fallback) ==
    IF id \in DOMAIN scenarioNames /\ scenarioNames[id] # ""
    THEN scenarioNames[id] ELSE fallback

\* the description of a pair without a breakeven age, and of a pair with
\* one: the template strings are kept as records of their parts
AlwaysBetter(better, worse) ==
    [kind |-> "is always better than", better |-> better, worse |-> worse]

BreaksEven(name1, name2, breakevenAge) ==
    [kind |-> "breaks even with", name1 |-> name1, name2 |-> name2,
     age |-> MathRound(breakevenAge)]

\* description for the breakeven age found
DescriptionOf(data1, data2, name1, name2, breakevenAge) ==
    IF breakevenAge.isNull
    THEN IF Less(FinalValue(data2), FinalValue(data1))
         THEN AlwaysBetter(name1, name2)
         ELSE AlwaysBetter(name2, name1)
    ELSE BreaksEven(name1, name2, breakevenAge.age)

BreakevenEntryOf(data1, data2, i, j, name1, name2, breakevenAge) ==
    [scenarioId1 |-> i,
     scenarioId2 |-> j,
     breakevenAge |-> breakevenAge,
     description |-> DescriptionOf(data1, data2, name1, name2, breakevenAge)]

\* the entry results.push adds for the scenarios at positions i < j of
\* scenarios.keys(); a scenario id is modelled by that position
BreakevenEntry(scenarios, scenarioNames, i, j) ==
    BreakevenEntryOf(scenarios[i], scenarios[j], i, j,
                     NameOr(scenarioNames, i, "Scenario 1"),
                     NameOr(scenarioNames, j, "Scenario 2"),
                     findBreakevenAge(scenarios[i], scenarios[j]))

\* lastAge1.netValue and lastAge2.netValue are read of the last rows when
\* there is no breakeven age: a TypeError when a series is empty
BreakevenEntryThrows(scenarios, i, j) ==
    /\ findBreakevenAge(scenarios[i], scenarios[j]).isNull
    /\ (Len(scenarios[i]) = 0 \/ Len(scenarios[j]) = 0)

\* for (let j = ..; j < scenarioIds.length; j++): the entries pushed for
\* scenario i with the scenarios j, j + 1, ...
RECURSIVE BreakevenInnerLoop(_, _, _, _)
BreakevenInnerLoop(scenarios, scenarioNames, i, j) ==
    IF j > Len(scenarios) THEN << >>
    ELSE << BreakevenEntry(scenarios, scenarioNames, i, j) >>
         \o BreakevenInnerLoop(scenarios, scenarioNames, i, j + 1)

\* for (let i = ..; i < scenarioIds.length; i++): the entries pushed for
\* the scenarios i, i + 1, ...
RECURSIVE BreakevenOuterLoop(_, _, _)
BreakevenOuterLoop(scenarios, scenarioNames, i) ==
    IF i > Len(scenarios) THEN << >>
    ELSE BreakevenInnerLoop(scenarios, scenarioNames, i, i + 1)
         \o BreakevenOuterLoop(scenarios, scenarioNames, i + 1)

\* scenarios is the list of the map's values in the order of its keys
calculateAllBreakevens(scenarios, scenarioNames) ==
    IF \E i, j \in 1 .. Len(scenarios) :
           i < j /\ BreakevenEntryThrows(scenarios, i, j)
    THEN [threw |-> TRUE]
    ELSE [threw |-> FALSE,
          results |-> BreakevenOuterLoop(scenarios, scenarioNames, 1)]

(***************************************************************************)
(* Inputs.                                                                 *)
(***************************************************************************)
BirthYears == (1943 - MaxYearsOutside) .. (1960 + MaxYearsOutside)

\* claiming ages in whole months, from below 62 to above 70
ClaimingAges ==
    { Rat(m, 12) : m \in (MIN_CLAIMING_AGE * 12 - MaxMonthsOutside)
                         .. (MAX_CLAIMING_AGE * 12 + MaxMonthsOutside) }

Amounts == { Num(1500 * i) : i \in 0 .. MaxAmountSteps }

\* FRA values handed directly to the reduction and credit functions
FRAs ==
    [years : (66 - MaxFRAYearsOutside) .. (67 + MaxFRAYearsOutside),
     months : 0 .. 11]

Rates == { Rat(5 * i, 2) : i \in 0 .. MaxRateSteps }

\* claiming ages of projections, in half years from 62
ProjClaimingAges == { Rat(124 + h, 2) : h \in 0 .. MaxClaimHalfYears }

\* birth years of projections (they only decide the calendar year)
ProjBirthYears == {1943 - MaxYearsOutside, 1960 + MaxYearsOutside}

ProjectCalls ==
    { c \in [op : {"projectBenefits"}, startingBenefit : Amounts,
             claimingAge : ProjClaimingAges,
             endAge : 61 .. (65 + MaxClaimHalfYears \div 2 + MaxProjYears),
             colaRate : Rates, birthYear : ProjBirthYears] :
        /\ c.endAge >= MathCeil(c.claimingAge) - 1
        /\ c.endAge <= MathCeil(c.claimingAge) + MaxProjYears }

\* the same calls with the optional inflationRate argument given
ProjectCallsWithInflation ==
    { [op |-> c.op, startingBenefit |-> c.startingBenefit,
       claimingAge |-> c.claimingAge, endAge |-> c.endAge,
       colaRate |-> c.colaRate, birthYear |-> c.birthYear,
       inflationRate |-> r] : c \in ProjectCalls, r \in Rates }

\* projections of someone born in 1960 who claims at the FRA of 67
FRAProjectCalls ==
    [op : {"projectBenefits"}, startingBenefit : Amounts,
     claimingAge : {Num(67)}, endAge : 67 .. (67 + MaxProjYears),
     colaRate : Rates, birthYear : {1960}]

\* claiming ages of scenarios: 61 (rejected), 62, ...
ScenarioClaimingAges == { Num(61 + i) : i \in 0 .. MaxScenarioClaimYears }

\* scenarios of someone born in 1960 without spouse data, the spouse switch
\* on or off
ScenariosWithoutSpouse ==
    [benefitAmount : Amounts, birthYear : {1960},
     claimingAge : ScenarioClaimingAges,
     lifetimeAge : 62 .. (62 + MaxProjYears),
     colaRate : Rates, inflationRate : Rates, includeSpouse : BOOLEAN]

\* the same scenarios with a spouse born in 1960 too
ScenariosWithSpouse ==
    [benefitAmount : Amounts, birthYear : {1960},
     claimingAge : ScenarioClaimingAges,
     lifetimeAge : 62 .. (62 + MaxProjYears),
     colaRate : Rates, inflationRate : Rates, includeSpouse : {TRUE},
     spouseBirthYear : {1960}, spouseBenefitAmount : Amounts,
     spouseClaimingAge : ScenarioClaimingAges]

\* the years in which projectMaxBenefitAtFRA is called, and the birth years
\* it is called for: FRA is reached up to MaxYearsUntilFRA years after 2025
CurrentYears == 2024 .. (2024 + MaxCurrentYears)
MaxBenefitBirthYears == 1956 .. (1958 + MaxYearsUntilFRA)

\* colaRate as callers pass it: the percentage 2.5 or 3 (part_005:157), or
\* the fraction 0.025 the parameter is documented with
MaxBenefitColaRates == {Rat(5, 2), Num(3), Rat(1, 40)}

MaxBenefitCalls ==
    [op : {"projectMaxBenefitAtFRA"}, birthYear : MaxBenefitBirthYears,
     colaRate : MaxBenefitColaRates, currentYear : CurrentYears]
    \cup [op : {"projectMaxBenefitAtFRA"}, birthYear : MaxBenefitBirthYears,
          currentYear : CurrentYears]

\* the monthly amounts of a yearly benefit row, negative ones included:
\* the nominal amount, and in today's dollars the same or one less
BenefitAmounts ==
    { << v, v - e >> : v \in (-1) .. MaxBenefitValue, e \in 0 .. 1 }

\* a list of yearly benefits with the given amounts, its ages ascending
\* from 62 or descending to 62
BenefitListOf(amounts, ascending) ==
    [i \in 1 .. Len(amounts) |->
        LET age == IF ascending THEN 61 + i ELSE 62 + Len(amounts) - i
        IN  [age |-> age, year |-> 1960 + age,
             monthlyBenefit |-> Num(amounts[i][1]),
             annualBenefit |-> Num(12 * amounts[i][1]),
             colaAdjusted |-> Num(amounts[i][1]),
             inflationAdjusted |-> Num(amounts[i][2])]]

BenefitLists ==
    { BenefitListOf(a, asc) :
        a \in UNION { [1 .. n -> BenefitAmounts] : n \in 0 .. MaxBenefitRows },
        asc \in BOOLEAN }

\* a cumulative series over consecutive ages from `first`.  Without net its
\* cumulativeAdjusted values are vals; with net every row carries a
\* netValue (as the rows of compareWithOpportunityCost do): its
\* cumulativeAdjusted minus an opportunity cost, here MaxCumValue - vals[i]
SeriesOf(first, vals, net) ==
    [i \in 1 .. Len(vals) |->
        IF net
        THEN [age |-> first + i - 1, year |-> 1960 + first + i - 1,
              cumulative |-> Num(vals[i]),
              cumulativeAdjusted |-> Num(vals[i]),
              netValue |-> Num(MaxCumValue - vals[i])]
        ELSE [age |-> first + i - 1, year |-> 1960 + first + i - 1,
              cumulative |-> Num(vals[i]),
              cumulativeAdjusted |-> Num(vals[i])]]

\* running totals of non-negative benefits: non-decreasing lists
ValueLists ==
    { v \in UNION { [1 .. n -> 0 .. MaxCumValue] : n \in 0 .. MaxSeriesLen } :
        \A i \in 1 .. Len(v) - 1 : v[i] <= v[i + 1] }

SeriesFrom(firsts) ==
    { SeriesOf(f, v, net) : f \in firsts, v \in ValueLists,
                            net \in BOOLEAN }

\* calls of calculateOpportunityCost: claiming ages in half years from 62,
\* the age reached in whole years, growth at -5, 0 or 5 percent; a call
\* whose years of growth are not whole has no growth
OpportunityAges == { Rat(124 + h, 2) : h \in 0 .. MaxOpportunityHalfYears }

OpportunityCalls ==
    { c \in [op : {"calculateOpportunityCost"},
             earlyClaimingAge : OpportunityAges,
             earlyBenefit : {Num(0), Num(12000)},
             delayedClaimingAge : OpportunityAges,
             currentAge : { Num(a) : a \in 62 .. (62 + MaxOpportunityYears) },
             growthRate : {Num(-5), Num(0), Num(5)}] :
        \/ Eq(c.growthRate, Num(0))
        \/ Eq(c.earlyClaimingAge, FloorNum(c.earlyClaimingAge)) }

\* a series for the toggles: rows over consecutive ages from `first` whose
\* cumulativeAdjusted values are vals and whose nominal cumulative is
\* twice that; with net every row carries a netValue, with invested a
\* cumulativeWithInvestment (as the rows of addInvestmentReturns do)
DisplayedRow(age, val, net, invested) ==
    [f \in {"age", "year", "cumulative", "cumulativeAdjusted"}
           \cup (IF net THEN {"netValue"} ELSE {})
           \cup (IF invested THEN {"cumulativeWithInvestment"} ELSE {}) |->
        CASE f = "age" -> age
          [] f = "year" -> 1960 + age
          [] f = "cumulative" -> Num(2 * val)
          [] f = "cumulativeAdjusted" -> Num(val)
          [] f = "netValue" -> Num(MaxComparedValue - val)
          [] f = "cumulativeWithInvestment" -> Num(3 * val + age - 62)]

DisplayedValueLists ==
    { v \in UNION { [1 .. n -> 0 .. MaxComparedValue] :
                        n \in 0 .. MaxDisplayedLen } :
        \A i \in 1 .. Len(v) - 1 : v[i] <= v[i + 1] }

DisplayedSeries(firsts, invested) ==
    { [i \in 1 .. Len(v) |-> DisplayedRow(f + i - 1, v[i], net, invested)] :
        f \in firsts, v \in DisplayedValueLists, net \in BOOLEAN }

TogglesCallsOf(invested) ==
    [op : {"findBreakevenAgeWithToggles"},
     scenario1Data : DisplayedSeries({62}, invested),
     scenario2Data : DisplayedSeries({62, 62 + MaxStartOffset}, invested),
     withInflation : BOOLEAN, withInvestment : BOOLEAN]

TogglesCalls == TogglesCallsOf(FALSE) \cup TogglesCallsOf(TRUE)

\* the series of the scenarios handed to calculateAllBreakevens: rows at
\* the ages 62 and 63 with non-decreasing cumulative values
ComparedSeries ==
    { SeriesOf(62, v, FALSE) :
        v \in { w \in [1 .. 2 -> 0 .. MaxComparedValue] : w[1] <= w[2] } }

ScenarioNames == << "A", "B", "C", "D", "E" >>

\* up to MaxScenarios scenarios, all of them named or none
AllBreakevensCalls ==
    { [op |-> "calculateAllBreakevens", scenarios |-> sc,
       scenarioNames |-> IF named THEN [i \in 1 .. Len(sc) |-> ScenarioNames[i]]
                         ELSE << >>] :
        sc \in UNION { [1 .. n -> ComparedSeries] : n \in 0 .. MaxScenarios },
        named \in BOOLEAN }

\* lifetime ages of long projections: 100, 95, ...
LifetimeAges == { 100 - 5 * i : i \in 0 .. MaxLifetimeSteps }

\* the yearly benefits projectScenario projects for someone born in 1960
\* with a base amount of 3000 who claims at claimingAge, with COLA and
\* inflation at 2.5%
ClaimingProjection(claimingAge, lifetimeAge) ==
    projectBenefits(
        calculateBenefit(Num(3000), 1960, Num(claimingAge)).monthlyBenefit,
        Num(claimingAge), lifetimeAge, Rat(5, 2), 1960, Rat(5, 2))

\* and the cumulative series projectScenario makes of them
ClaimingSeries(claimingAge, lifetimeAge) ==
    calculateCumulativeBenefits(ClaimingProjection(claimingAge, lifetimeAge))

\* claiming at 62 and at 70 is accumulated, and compared in both orders:
\* projection[c] are the yearly benefits of claiming at c, series[c] their
\* cumulative series
ClaimingCallsWith(projection, series) ==
    { [op |-> "calculateCumulativeBenefits", benefits |-> projection[c]] :
        c \in DOMAIN projection }
    \cup { [op |-> "findBreakevenAge", scenario1Data |-> series[c],
            scenario2Data |-> series[MIN_CLAIMING_AGE + MAX_CLAIMING_AGE - c]] :
             c \in DOMAIN projection }

ClaimingCallsOf(projection) ==
    ClaimingCallsWith(projection,
                      [c \in DOMAIN projection |->
                          calculateCumulativeBenefits(projection[c])])

ClaimingCalls ==
    UNION { ClaimingCallsOf([c \in {MIN_CLAIMING_AGE, MAX_CLAIMING_AGE} |->
                                ClaimingProjection(c, l)]) :
                l \in LifetimeAges }

(***************************************************************************)
(* State machine.  The core is a library of pure functions: a behaviour is *)
(* one call of an exported function.  Initially the caller has chosen the  *)
(* function and its arguments (call) and the call is pending (pc =         *)
(* "call"); the function's action evaluates it, leaving what it returned   *)
(* in result (pc = "done").                                                *)
(***************************************************************************)
Calls ==
    [op : {"calculateFRA"}, birthYear : BirthYears]
    \cup [op : {"calculateEarlyReductionPercentage"},
          claimingAge : ClaimingAges, fra : FRAs]
    \cup [op : {"calculateDelayedCreditPercentage"},
          claimingAge : ClaimingAges, fra : FRAs]
    \cup [op : {"calculateBenefit"}, baseAmount : Amounts,
          birthYear : BirthYears, claimingAge : ClaimingAges]
    \cup [op : {"calculateSpousalBenefit"}, ownBaseAmount : Amounts,
          partnerBaseAmount : Amounts, spouseBirthYear : BirthYears,
          spouseClaimingAge : ClaimingAges]
    \cup ProjectCalls
    \cup ProjectCallsWithInflation
    \cup FRAProjectCalls
    \cup MaxBenefitCalls
    \cup AllBreakevensCalls
    \cup ClaimingCalls
    \cup [op : {"projectScenario"},
          scenario : ScenariosWithoutSpouse \cup ScenariosWithSpouse]
    \cup [op : {"calculateCumulativeBenefits"}, benefits : BenefitLists]
    \cup [op : {"findBreakevenAge"},
          scenario1Data : SeriesFrom({62}),
          scenario2Data : SeriesFrom(62 .. (62 + MaxStartOffset))]
    \cup TogglesCalls
    \cup OpportunityCalls

(***************************************************************************)
(* A session of calls. The calculation functions run in one JavaScript     *)
(* realm: FRA_TABLE is one mutable object whose entries calculateFRA hands *)
(* out, the clock (new Date()) advances between calls, and the caller may  *)
(* write to any object it was handed.                                      *)
(***************************************************************************)
NoObject == [kind |-> "none"]

\* the object calculateFRA returns: a new object literal, or the entry
\* FRA_TABLE[birthYear] itself
ObjectOfFRA(birthYear) ==
    IF birthYear >= 1960
    THEN [kind |-> "fresh", value |-> [years |-> 67, months |-> 0]]
    ELSE IF birthYear < 1943
    THEN [kind |-> "fresh", value |-> [years |-> 66, months |-> 0]]
    ELSE IF birthYear \in DOMAIN FRA_TABLE
    THEN [kind |-> "table", key |-> birthYear]
    ELSE [kind |-> "fresh", value |-> [years |-> 67, months |-> 0]]

\* the fields of an object, the entries of the table being in table
ValueOf(table, object) ==
    IF object.kind = "table" THEN table[object.key] ELSE object.value

\* calculateBenefit when calculateFRA has returned the object fraObject
BenefitWithObject(table, baseAmount, claimingAge, fraObject) ==
    IF ClaimingAgeRejected(claimingAge)
    THEN [threw |-> TRUE]
    ELSE BenefitWithFRA(baseAmount, claimingAge, ValueOf(table, fraObject))

NoCall == [op |-> "none"]

NoEarlier == [returned |-> FALSE]

\* the call before the next one: the last call when it has returned
Earlier == IF pc = "done" THEN [returned |-> TRUE, call |-> call, result |-> result] ELSE NoEarlier

\* birth years of a session: before the table, in it, and after it
SessionBirthYears == {1943 - MaxYearsOutside, 1955, 1960 + MaxYearsOutside}

\* COLA and inflation rates of a session: 0 and 2.5 percent
SessionRates == {Num(0), Rat(5, 2)}

\* what a caller may assign to the months of an FRA object
AssignedMonths == {6}

\* the rows applyInflation is called with: projections of a benefit of 1500
\* claimed at 62 by someone born in 1960
SessionBenefits ==
    { projectBenefits(Num(1500), Num(62), 62 + n, Num(0), 1960, Num(0)) : n \in 0 .. MaxSessionRows - 1 }

SessionStart ==
    /\ now = 2024
    /\ fraTable = FRA_TABLE
    /\ held = NoObject
    /\ earlier = NoEarlier

(***************************************************************************)
(* Scenario storage (scenarioStorage over idb-keyval) and its validation   *)
(* (ScenarioSchema). A stored scenario keeps its numbers as integers, its  *)
(* dates as years, and its name as the length of the name. Every idb-keyval*)
(* operation is one IndexedDB transaction and takes effect in the order    *)
(* the operations are issued; a call runs from one await to the next       *)
(* without interruption.                                                   *)
(***************************************************************************)
\* the ids of scenarios (UUIDs)
ScenarioIds == { "id1", "id2", "id3" }

\* birthDateSchema: the age in years is at least 18 and less than 150
birthDateSchema(birthYear, currentYear) ==
    currentYear - birthYear >= 18 /\ currentYear - birthYear < 150

\* claimingAgeSchema: .min(MIN_CLAIMING_AGE).max(MAX_CLAIMING_AGE)
claimingAgeSchema(claimingAge) ==
    claimingAge >= MIN_CLAIMING_AGE /\ claimingAge <= MAX_CLAIMING_AGE

\* benefitAmountSchema: .positive().max(getMaxBenefit() * 1.25)
benefitAmountSchema(benefitAmount, currentYear) ==
    benefitAmount > 0 /\ 4 * benefitAmount <= 5 * CurrentMaxBenefitIn(currentYear)

\* percentageRateSchema: .min(-5).max(20)
percentageRateSchema(rate) == rate >= -5 /\ rate <= 20

\* ScenarioSchema.parse(scenario) does not throw
ScenarioSchema(scenario, currentYear) ==
    /\ scenario.id \in ScenarioIds
    /\ scenario.name >= 1 /\ scenario.name <= 100
    /\ birthDateSchema(scenario.birthYear, currentYear)
    /\ benefitAmountSchema(scenario.benefitAmount, currentYear)
    /\ claimingAgeSchema(scenario.claimingAge)
    /\ scenario.includeSpouse \in BOOLEAN
    /\ ("spouseBirthYear" \in DOMAIN scenario =>
            birthDateSchema(scenario.spouseBirthYear, currentYear))
    /\ ("spouseBenefitAmount" \in DOMAIN scenario =>
            benefitAmountSchema(scenario.spouseBenefitAmount, currentYear))
    /\ ("spouseClaimingAge" \in DOMAIN scenario =>
            claimingAgeSchema(scenario.spouseClaimingAge))
    /\ scenario.assumptionPreset \in {"conservative", "moderate", "historical", "custom"}
    /\ percentageRateSchema(scenario.investmentGrowthRate)
    /\ percentageRateSchema(scenario.colaRate)
    /\ percentageRateSchema(scenario.inflationRate)
    /\ scenario.displayMode \in {"today-dollars", "future-dollars"}
    /\ scenario.includeOpportunityCost \in BOOLEAN
    /\ scenario.lifetimeAge \in {85, 90, 95, 100}

\* no entry under a key
Absent == [stored |-> FALSE]

\* the entry a set(key, value) leaves
Entry(value) == [stored |-> TRUE, value |-> value]

\* an empty database; get('scenario-list') of it is undefined, which
\* getScenarioIds turns into []
StorageStart ==
    /\ store = [id \in ScenarioIds |-> Absent]
    /\ list = << >>
    /\ inFlight = << >>

\* one call of a calculation function, in a fresh environment
Init ==
    /\ call \in Calls
    /\ result = [threw |-> FALSE]
    /\ pc = "call"
    /\ SessionStart
    /\ StorageStart

Pending(op) == pc = "call" /\ call.op = op

Returned(op) == pc = "done" /\ call.op = op

CallCalculateFRA ==
    /\ Pending("calculateFRA")
    /\ result' = calculateFRA(call.birthYear)
    /\ pc' = "done"
    /\ UNCHANGED << call, sessionVars, storageVars >>

CallCalculateEarlyReductionPercentage ==
    /\ Pending("calculateEarlyReductionPercentage")
    /\ result' = calculateEarlyReductionPercentage(call.claimingAge, call.fra)
    /\ pc' = "done"
    /\ UNCHANGED << call, sessionVars, storageVars >>

CallCalculateDelayedCreditPercentage ==
    /\ Pending("calculateDelayedCreditPercentage")
    /\ result' = calculateDelayedCreditPercentage(call.claimingAge, call.fra)
    /\ pc' = "done"
    /\ UNCHANGED << call, sessionVars, storageVars >>

CallCalculateBenefit ==
    /\ Pending("calculateBenefit")
    /\ result' = calculateBenefit(call.baseAmount, call.birthYear,
                                  call.claimingAge)
    /\ pc' = "done"
    /\ UNCHANGED << call, sessionVars, storageVars >>

CallCalculateSpousalBenefit ==
    /\ Pending("calculateSpousalBenefit")
    /\ result' = calculateSpousalBenefit(call.ownBaseAmount,
                                        call.partnerBaseAmount,
                                        call.spouseBirthYear,
                                        call.spouseClaimingAge)
    /\ pc' = "done"
    /\ UNCHANGED << call, sessionVars, storageVars >>

\* inflationRate defaults to colaRate when the argument is omitted
CallProjectBenefits ==
    /\ Pending("projectBenefits")
    /\ result' = projectBenefits(call.startingBenefit, call.claimingAge,
                                call.endAge, call.colaRate, call.birthYear,
                                IF "inflationRate" \in DOMAIN call
                                THEN call.inflationRate ELSE call.colaRate)
    /\ pc' = "done"
    /\ UNCHANGED << call, sessionVars, storageVars >>

CallCalculateCumulativeBenefits ==
    /\ Pending("calculateCumulativeBenefits")
    /\ result' = calculateCumulativeBenefits(call.benefits)
    /\ pc' = "done"
    /\ UNCHANGED << call, sessionVars, storageVars >>

CallFindBreakevenAge ==
    /\ Pending("findBreakevenAge")
    /\ result' = findBreakevenAge(call.scenario1Data, call.scenario2Data)
    /\ pc' = "done"
    /\ UNCHANGED << call, sessionVars, storageVars >>

\* the yearly series and growth rates are omitted, investmentRatio is not
\* read then
CallFindBreakevenAgeWithToggles ==
    /\ Pending("findBreakevenAgeWithToggles")
    /\ result' = findBreakevenAgeWithToggles(call.scenario1Data,
                                             call.scenario2Data,
                                             call.withInflation,
                                             call.withInvestment)
    /\ pc' = "done"
    /\ UNCHANGED << call, sessionVars, storageVars >>

CallCalculateOpportunityCost ==
    /\ Pending("calculateOpportunityCost")
    /\ result' = calculateOpportunityCost(call.earlyClaimingAge,
                                          call.earlyBenefit,
                                          call.delayedClaimingAge,
                                          call.currentAge, call.growthRate)
    /\ pc' = "done"
    /\ UNCHANGED << call, sessionVars, storageVars >>

CallProjectScenario ==
    /\ Pending("projectScenario")
    /\ result' = projectScenario(call.scenario)
    /\ pc' = "done"
    /\ UNCHANGED << call, sessionVars, storageVars >>

\* colaRate defaults to 0.025 when the argument is omitted
CallProjectMaxBenefitAtFRA ==
    /\ Pending("projectMaxBenefitAtFRA")
    /\ result' = projectMaxBenefitAtFRA(call.birthYear,
                                       IF "colaRate" \in DOMAIN call
                                       THEN call.colaRate ELSE Rat(1, 40),
                                       call.currentYear)
    /\ pc' = "done"
    /\ UNCHANGED << call, sessionVars, storageVars >>

CallCalculateAllBreakevens ==
    /\ Pending("calculateAllBreakevens")
    /\ result' = calculateAllBreakevens(call.scenarios, call.scenarioNames)
    /\ pc' = "done"
    /\ UNCHANGED << call, sessionVars, storageVars >>

Next ==
    \/ CallCalculateFRA
    \/ CallCalculateEarlyReductionPercentage
    \/ CallCalculateDelayedCreditPercentage
    \/ CallCalculateBenefit
    \/ CallCalculateSpousalBenefit
    \/ CallProjectBenefits
    \/ CallCalculateCumulativeBenefits
    \/ CallFindBreakevenAge
    \/ CallProjectScenario
    \/ CallProjectMaxBenefitAtFRA
    \/ CallCalculateAllBreakevens
    \/ CallFindBreakevenAgeWithToggles
    \/ CallCalculateOpportunityCost

Spec == Init /\ [][Next]_vars

SessionInit ==
    /\ call = NoCall
    /\ result = [threw |-> FALSE]
    /\ pc = "idle"
    /\ SessionStart
    /\ StorageStart

\* the year changes between two calls
Tick ==
    /\ now < 2024 + MaxSessionYears
    /\ now' = now + 1
    /\ UNCHANGED << call, result, pc, fraTable, held, earlier, storageVars >>

\* the caller assigns to the months of the FRA object it holds
AssignToHeld ==
    /\ held # NoObject
    /\ \E v \in AssignedMonths :
        /\ ValueOf(fraTable, held).months # v
        /\ IF held.kind = "table"
           THEN /\ fraTable' = [fraTable EXCEPT ![held.key].months = v]
                /\ UNCHANGED held
           ELSE /\ held' = [held EXCEPT !.value.months = v]
                /\ UNCHANGED fraTable
    /\ UNCHANGED << call, result, pc, now, earlier, storageVars >>

SessionCalculateFRA ==
    \E birthYear \in SessionBirthYears :
        /\ call' = [op |-> "calculateFRA", birthYear |-> birthYear]
        /\ held' = ObjectOfFRA(birthYear)
        /\ result' = ValueOf(fraTable, ObjectOfFRA(birthYear))
        /\ pc' = "done"
        /\ earlier' = Earlier
        /\ UNCHANGED << now, fraTable, storageVars >>

\* the fra field of the result is the object calculateFRA returned
SessionCalculateBenefit ==
    \E birthYear \in SessionBirthYears : \E claimingAge \in {Num(67)} :
        /\ call' = [op |-> "calculateBenefit", baseAmount |-> Num(1500),
                    birthYear |-> birthYear, claimingAge |-> claimingAge]
        /\ result' = BenefitWithObject(fraTable, Num(1500), claimingAge,
                                       ObjectOfFRA(birthYear))
        /\ held' = IF ClaimingAgeRejected(claimingAge) THEN held
                   ELSE ObjectOfFRA(birthYear)
        /\ pc' = "done"
        /\ earlier' = Earlier
        /\ UNCHANGED << now, fraTable, storageVars >>

\* inflationRate is omitted: it defaults to colaRate
SessionProjectBenefits ==
    \E colaRate \in SessionRates :
        /\ call' = [op |-> "projectBenefits", startingBenefit |-> Num(1500),
                    claimingAge |-> Num(62), endAge |-> 62 + MaxSessionRows - 1,
                    colaRate |-> colaRate, birthYear |-> 1960]
        /\ result' = projectBenefits(Num(1500), Num(62),
                                     62 + MaxSessionRows - 1, colaRate, 1960,
                                     colaRate)
        /\ pc' = "done"
        /\ earlier' = Earlier
        /\ UNCHANGED << now, fraTable, held, storageVars >>

\* baseYear is omitted: it defaults to new Date().getFullYear()
SessionApplyInflation ==
    \E benefits \in SessionBenefits : \E inflationRate \in SessionRates :
        /\ call' = [op |-> "applyInflation", benefits |-> benefits,
                    inflationRate |-> inflationRate]
        /\ result' = applyInflation(benefits, inflationRate, now)
        /\ pc' = "done"
        /\ earlier' = Earlier
        /\ UNCHANGED << now, fraTable, held, storageVars >>

\* new Date().getFullYear() is the year of the clock, and calculateFRA reads
\* the table as it is
SessionProjectMaxBenefitAtFRA ==
    \E birthYear \in SessionBirthYears : \E colaRate \in {Rat(1, 40)} :
        /\ call' = [op |-> "projectMaxBenefitAtFRA", birthYear |-> birthYear,
                    colaRate |-> colaRate]
        /\ result' = ProjectedMaxBenefit(
                         CurrentMaxBenefitIn(now), colaRate,
                         YearsUntilFRAOf(birthYear,
                                         ValueOf(fraTable, ObjectOfFRA(birthYear)),
                                         now))
        /\ pc' = "done"
        /\ earlier' = Earlier
        /\ UNCHANGED << now, fraTable, held, storageVars >>

SessionNext ==
    \/ Tick
    \/ AssignToHeld
    \/ SessionCalculateFRA
    \/ SessionCalculateBenefit
    \/ SessionProjectBenefits
    \/ SessionApplyInflation
    \/ SessionProjectMaxBenefitAtFRA

SessionSpec == SessionInit /\ [][SessionNext]_vars

(***************************************************************************)
(* Storage calls. inFlight holds one record per call that has started, in  *)
(* the order the calls started; pc is where the call will resume: at       *)
(* "merge" (updateScenario, after its get), at "readList" (after the set   *)
(* or del of the scenario), at "writeList" (after the get of the list), or *)
(* it is over ("returned", "threw").                                       *)
(***************************************************************************)
InFlightCall(op, id, arg, resumesAt) ==
    [op |-> op, id |-> id, arg |-> arg, pc |-> resumesAt, ids |-> << >>, existing |-> Absent]

Includes(ids, id) == \E i \in 1 .. Len(ids) : ids[i] = id

\* mutant: the id is appended whether or not the list includes it
ListAfterSave_AlwaysAppended(current, ids, id) == Append(ids, id)

\* if (!ids.includes(validated.id)) updateScenarioIds([...ids, validated.id]):
\* the list after saveScenario has read it as ids, current being the list
\* when the call resumes
ListAfterSave(current, ids, id) ==
    IF Includes(ids, id) THEN current ELSE Append(ids, id)

\* ids.filter((scenarioId) => scenarioId !== id)
IdsAfterDelete(ids, id) == SelectSeq(ids, LAMBDA scenarioId : scenarioId # id)

\* mutant: the scenario is written before it is validated
StoreAfterSave_Unvalidated(entries, scenario, currentYear) ==
    [entries EXCEPT ![scenario.id] = Entry(scenario)]

\* ScenarioSchema.parse(scenario); await set(getScenarioKey(validated.id),
\* validated): the entries after it
StoreAfterSave(entries, scenario, currentYear) ==
    IF ScenarioSchema(scenario, currentYear)
    THEN [entries EXCEPT ![scenario.id] = Entry(scenario)]
    ELSE entries

\* where saveScenario(scenario) resumes
PcAfterSave(scenario, currentYear) ==
    IF ScenarioSchema(scenario, currentYear) THEN "readList" ELSE "threw"

\* getScenario: null when there is no entry or the entry is invalid
Existing(entry, currentYear) ==
    IF entry.stored /\ ScenarioSchema(entry.value, currentYear)
    THEN entry
    ELSE Absent

\* { ...existing, ...updates, id, updatedAt: new Date() }
Updated(existing, updates, id, currentYear) ==
    [f \in DOMAIN existing \cup DOMAIN updates |->
        IF f = "id" THEN id
        ELSE IF f = "updatedAt" THEN currentYear
        ELSE IF f \in DOMAIN updates THEN updates[f]
        ELSE existing[f]]

AllOver == \A p \in 1 .. Len(inFlight) : inFlight[p].pc \in {"returned", "threw"}

\* no call for this id has started
NoCallFor(id) == \A p \in 1 .. Len(inFlight) : inFlight[p].id # id

\* a scenario as the application creates it (createDefaultScenario), for
\* someone born in 1960
ValidScenario(id) ==
    [id |-> id, name |-> 17, createdAt |-> 2024, updatedAt |-> 2024,
     birthYear |-> 1960, benefitAmount |-> 2000, claimingAge |-> 67,
     includeSpouse |-> FALSE, assumptionPreset |-> "moderate",
     investmentGrowthRate |-> 5, colaRate |-> 3, inflationRate |-> 3,
     displayMode |-> "today-dollars", includeOpportunityCost |-> FALSE,
     lifetimeAge |-> 90]

\* COLA rates of saved scenarios: below the schema's minimum, negative, and
\* steps of 3 from 0
ColaRatesToSave == {-6, -1} \cup { 3 * i : i \in 0 .. MaxStoredRateSteps }

InflationRatesToSave == {-1, 3}

ScenariosToSave ==
    { [ValidScenario(id) EXCEPT !.colaRate = c, !.inflationRate = i] :
        id \in ScenarioIds, c \in ColaRatesToSave, i \in InflationRatesToSave }

\* the updates of updateScenario: a valid rate, an invalid rate, and another
\* lifetime age together with an id, which is ignored
UpdatesToApply ==
    { [colaRate |-> 0], [colaRate |-> 21], [id |-> "id1", lifetimeAge |-> 95] }

\* saveScenario(scenario) up to its first await
StartSave(scenario) ==
    /\ store' = StoreAfterSave(store, scenario, now)
    /\ inFlight' = Append(inFlight,
                          InFlightCall("saveScenario", scenario.id, scenario,
                                       PcAfterSave(scenario, now)))
    /\ UNCHANGED << call, result, pc, sessionVars, list >>

\* deleteScenario(id) up to its first await: del(getScenarioKey(id))
StartDelete(id) ==
    /\ store' = [store EXCEPT ![id] = Absent]
    /\ inFlight' = Append(inFlight,
                          InFlightCall("deleteScenario", id, id, "readList"))
    /\ UNCHANGED << call, result, pc, sessionVars, list >>

\* updateScenario(id, updates) up to its first await: the get of getScenario
StartUpdate(id, updates) ==
    /\ inFlight' = Append(inFlight,
                          [InFlightCall("updateScenario", id, updates, "merge")
                              EXCEPT !.existing = store[id]])
    /\ UNCHANGED << call, result, pc, sessionVars, store, list >>

\* updateScenario after getScenario: it throws when there is no scenario,
\* else it calls saveScenario(updated), which runs up to its first await
MergeAndSave(p) ==
    /\ inFlight[p].pc = "merge"
    /\ IF Existing(inFlight[p].existing, now).stored
       THEN /\ store' = StoreAfterSave(
                    store,
                    Updated(inFlight[p].existing.value, inFlight[p].arg,
                            inFlight[p].id, now),
                    now)
            /\ inFlight' = [inFlight EXCEPT ![p].pc =
                    PcAfterSave(Updated(inFlight[p].existing.value,
                                        inFlight[p].arg, inFlight[p].id, now),
                                now)]
       ELSE /\ inFlight' = [inFlight EXCEPT ![p].pc = "threw"]
            /\ UNCHANGED store
    /\ UNCHANGED << call, result, pc, sessionVars, list >>

\* const ids = await getScenarioIds(): the get is issued
ReadList(p) ==
    /\ inFlight[p].pc = "readList"
    /\ inFlight' = [inFlight EXCEPT ![p].ids = list, ![p].pc = "writeList"]
    /\ UNCHANGED << call, result, pc, sessionVars, store, list >>

\* the call resumes with ids and issues its updateScenarioIds, if any
WriteList(p) ==
    /\ inFlight[p].pc = "writeList"
    /\ list' = IF inFlight[p].op = "deleteScenario"
               THEN IdsAfterDelete(inFlight[p].ids, inFlight[p].id)
               ELSE ListAfterSave(list, inFlight[p].ids, inFlight[p].id)
    /\ inFlight' = [inFlight EXCEPT ![p].pc = "returned"]
    /\ UNCHANGED << call, result, pc, sessionVars, store >>

StorageIdle ==
    /\ call = NoCall
    /\ result = [threw |-> FALSE]
    /\ pc = "idle"
    /\ SessionStart

\* the calls are made one at a time, each awaited before the next is made
SequentialInit ==
    /\ StorageIdle
    /\ StorageStart

SequentialSave ==
    /\ AllOver
    /\ Len(inFlight) < MaxSequentialCalls
    /\ \E scenario \in ScenariosToSave : StartSave(scenario)

SequentialDelete ==
    /\ AllOver
    /\ Len(inFlight) < MaxSequentialCalls
    /\ \E id \in ScenarioIds : StartDelete(id)

SequentialUpdate ==
    /\ AllOver
    /\ Len(inFlight) < MaxSequentialCalls
    /\ \E id \in ScenarioIds : \E updates \in UpdatesToApply :
            StartUpdate(id, updates)

Resume ==
    \E p \in 1 .. Len(inFlight) : MergeAndSave(p) \/ ReadList(p) \/ WriteList(p)

SequentialNext ==
    \/ SequentialSave
    \/ SequentialDelete
    \/ SequentialUpdate
    \/ Resume

SequentialSpec == SequentialInit /\ [][SequentialNext]_vars

\* a database as sequential saves leave it: the scenarios of some ids, and
\* the list of these ids
StoredBefore(ids) ==
    /\ store = [id \in ScenarioIds |->
                    IF Includes(ids, id) THEN Entry(ValidScenario(id)) ELSE Absent]
    /\ list = ids
    /\ inFlight = << >>

\* the lists of the first n ids
ListsBefore == { << >>, << "id1" >>, << "id1", "id2" >> }

\* the calls are made without awaiting the ones before, each for another id
ConcurrentInit ==
    /\ StorageIdle
    /\ \E ids \in ListsBefore : StoredBefore(ids)

ConcurrentSave ==
    /\ Len(inFlight) < MaxConcurrentCalls
    /\ \E scenario \in ScenariosToSave :
            NoCallFor(scenario.id) /\ StartSave(scenario)

ConcurrentDelete ==
    /\ Len(inFlight) < MaxConcurrentCalls
    /\ \E id \in ScenarioIds : NoCallFor(id) /\ StartDelete(id)

ResumeSaveOrDelete ==
    \E p \in 1 .. Len(inFlight) : ReadList(p) \/ WriteList(p)

ConcurrentNext ==
    \/ ConcurrentSave
    \/ ConcurrentDelete
    \/ ResumeSaveOrDelete

ConcurrentSpec == ConcurrentInit /\ [][ConcurrentNext]_vars

(***************************************************************************)
(* Properties.                                                             *)
(***************************************************************************)
\* the claiming age of a call, in months (ages are whole months)
MonthsOf(claimingAge) == (claimingAge.n * 12) \div claimingAge.d

BenefitCalculationFields ==
    {"threw", "monthlyBenefit", "annualBenefit", "adjustmentPercentage", "fra"}

\* C1: calculateBenefit raises exactly when claimingAge < 62 or
\* claimingAge > 70; for every claiming age in [62, 70] and every birth
\* year it returns a BenefitCalculation.
C1_ThrowsExactlyOutsideRange ==
    Returned("calculateBenefit") =>
        /\ result.threw <=> (MonthsOf(call.claimingAge) < 62 * 12
                                \/ MonthsOf(call.claimingAge) > 70 * 12)
        /\ ~result.threw => DOMAIN result = BenefitCalculationFields

C1_Witness ==
    /\ Returned("calculateBenefit")
    /\ call.claimingAge = Num(70)
    /\ call.birthYear = 1957
    /\ ~result.threw
    /\ result.fra = [years |-> 66, months |-> 6]

\* the table of claim C2
C2_Table(y) ==
    CASE y < 1943 -> [years |-> 66, months |-> 0]
      [] y \in 1943 .. 1954 -> [years |-> 66, months |-> 0]
      [] y = 1955 -> [years |-> 66, months |-> 2]
      [] y = 1956 -> [years |-> 66, months |-> 4]
      [] y = 1957 -> [years |-> 66, months |-> 6]
      [] y = 1958 -> [years |-> 66, months |-> 8]
      [] y = 1959 -> [years |-> 66, months |-> 10]
      [] y >= 1960 -> [years |-> 67, months |-> 0]

C3_EarlyReductionFormula ==
    Returned("calculateEarlyReductionPercentage") =>
        LET m == (call.fra.years * 12 + call.fra.months)
                     - MonthsOf(call.claimingAge)
        IN  /\ m <= 0 => result = Num(0)
            /\ (0 < m /\ m <= 36) => result = Rat(-(m * 5), 900)
            /\ m > 36 => result = Rat(-(36 * 5 * 4 + (m - 36) * 5 * 3), 3600)
            /\ (call.claimingAge = Num(62)
                  /\ call.fra = [years |-> 66, months |-> 0])
                   => result = Rat(-25, 100)
            /\ (call.claimingAge = Num(62)
                  /\ call.fra = [years |-> 67, months |-> 0])
                   => result = Rat(-30, 100)

C3_Witness ==
    /\ Returned("calculateEarlyReductionPercentage")
    /\ call.claimingAge = Num(62)
    /\ call.fra = [years |-> 67, months |-> 0]
    /\ result = Rat(-3, 10)

\* C4: the delayed credit is 0 at or before FRA and otherwise 2/3 % per
\* month after FRA, the months capped at those between FRA and age 70: 24%
\* at 70 for FRA 67, 32% at 70 for FRA 66, and above 70 the same as at 70.
C4_DelayedCreditCappedAt70 ==
    Returned("calculateDelayedCreditPercentage") =>
        LET fraMonths == call.fra.years * 12 + call.fra.months
            m == MonthsOf(call.claimingAge) - fraMonths
            cap == 70 * 12 - fraMonths
        IN  /\ m <= 0 => result = Num(0)
            /\ m > 0 => result = Rat(2 * (IF m < cap THEN m ELSE cap), 300)
            /\ (call.claimingAge = Num(70)
                  /\ call.fra = [years |-> 67, months |-> 0])
                   => result = Rat(24, 100)
            /\ (call.claimingAge = Num(70)
                  /\ call.fra = [years |-> 66, months |-> 0])
                   => result = Rat(32, 100)
            /\ MonthsOf(call.claimingAge) > 70 * 12
                   => result = calculateDelayedCreditPercentage(Num(70),
                                                                call.fra)

C4_Witness ==
    /\ Returned("calculateDelayedCreditPercentage")
    /\ call.claimingAge = Rat(70 * 12 + 1, 12)
    /\ call.fra = [years |-> 66, months |-> 0]
    /\ result = Rat(32, 100)

\* a >= b and a > b for two numbers
AtLeast(a, b) == LessEq(b, a)
MoreThan(a, b) == Less(b, a)

\* C5: calculateSpousalBenefit returns monthlyBenefit = max(ownBenefit,
\* spousalBenefit) and source = "own" exactly when ownBenefit >=
\* spousalBenefit; on the tie of own base 1500, partner base 3000 and a
\* claim at the spouse's FRA the source is "own" and monthlyBenefit 1500.
C5_HigherBenefitTieOwn ==
    (Returned("calculateSpousalBenefit") /\ ~result.threw) =>
        /\ result.monthlyBenefit =
               (IF AtLeast(result.ownBenefit, result.spousalBenefit)
                THEN result.ownBenefit ELSE result.spousalBenefit)
        /\ result.source \in {"own", "spousal"}
        /\ result.source = "own"
               <=> AtLeast(result.ownBenefit, result.spousalBenefit)
        /\ (/\ call.ownBaseAmount = Num(1500)
            /\ call.partnerBaseAmount = Num(3000)
            /\ call.spouseClaimingAge =
                   getFRAAsDecimal(calculateFRA(call.spouseBirthYear)))
               => (result.source = "own" /\ result.monthlyBenefit = Num(1500))

C5_Witness ==
    /\ Returned("calculateSpousalBenefit")
    /\ call.ownBaseAmount = Num(1500)
    /\ call.partnerBaseAmount = Num(3000)
    /\ call.spouseBirthYear = 1956
    /\ call.spouseClaimingAge = Rat(66 * 12 + 4, 12)
    /\ result.ownBenefit = result.spousalBenefit
    /\ result.source = "own"

\* C6: for every spouse birth year and claiming age in 62..70 the
\* spousalBenefit never exceeds 50% of partnerBaseAmount: it is exactly 50%
\* from the spouse's FRA on (no delayed credits) and 50% reduced by the
\* early-reduction percentage before it.
C6_SpousalBenefitAtMostHalf ==
    (Returned("calculateSpousalBenefit") /\ ~result.threw) =>
        LET fra == calculateFRA(call.spouseBirthYear)
            half == Rat(call.partnerBaseAmount.n,
                        2 * call.partnerBaseAmount.d)
            early == MonthsOf(call.spouseClaimingAge)
                         < fra.years * 12 + fra.months
        IN  /\ AtLeast(half, result.spousalBenefit)
            /\ ~early => result.spousalBenefit = half
            /\ early => result.spousalBenefit =
                   Times(half,
                         Plus(Num(1),
                              calculateEarlyReductionPercentage(
                                  call.spouseClaimingAge, fra)))

C6_Witness ==
    /\ Returned("calculateSpousalBenefit")
    /\ call.partnerBaseAmount = Num(3000)
    /\ call.spouseBirthYear = 1950
    /\ call.spouseClaimingAge = Num(70)
    /\ result.spousalBenefit = Num(1500)

\* Math.ceil of a claiming age, as the least integer not below it
CeilOf(claimingAge) ==
    CHOOSE c \in 0 .. 200 :
        /\ c * claimingAge.d >= claimingAge.n
        /\ (c - 1) * claimingAge.d < claimingAge.n

\* C7: in projectBenefits the row k years after the first row (k = age -
\* ceil(claimingAge)) has monthlyBenefit = startingBenefit * (1 +
\* colaRate/100)^k, so the first row has monthlyBenefit = startingBenefit;
\* in every row colaAdjusted = monthlyBenefit and annualBenefit = 12 *
\* monthlyBenefit.
C7_ColaCompoundsFromClaimingYear ==
    Returned("projectBenefits") =>
        \A i \in 1 .. Len(result) :
            LET row == result[i]
                k == row.age - CeilOf(call.claimingAge)
                factor == Rat(call.colaRate.d * 100 + call.colaRate.n,
                              call.colaRate.d * 100)
            IN  /\ k = 0 => row.monthlyBenefit = call.startingBenefit
                /\ k > 0 => (/\ i > 1
                             /\ result[i - 1].age = row.age - 1
                             /\ row.monthlyBenefit =
                                    Times(result[i - 1].monthlyBenefit,
                                          factor))
                /\ k >= 0
                /\ row.colaAdjusted = row.monthlyBenefit
                /\ row.annualBenefit = Times(Num(12), row.monthlyBenefit)

C7_Witness ==
    /\ Returned("projectBenefits")
    /\ call.startingBenefit = Num(3000)
    /\ call.claimingAge = Rat(125, 2)
    /\ call.colaRate = Rat(5, 2)
    /\ Len(result) >= 3
    /\ result[1].age = 63
    /\ result[1].monthlyBenefit = Num(3000)
    /\ result[2].monthlyBenefit = Num(3075)
    /\ result[3].monthlyBenefit = Rat(3151875, 1000)

\* C8: projectBenefits returns exactly one row for each integer age from
\* ceil(claimingAge) to endAge inclusive, in strictly ascending age order,
\* with year = birth year + age; it returns an empty list when endAge <
\* ceil(claimingAge).
C8_OneRowPerAge ==
    Returned("projectBenefits") =>
        LET first == CeilOf(call.claimingAge)
        IN  /\ call.endAge < first => result = << >>
            /\ call.endAge >= first => Len(result) = call.endAge - first + 1
            /\ \A i \in 1 .. Len(result) :
                   /\ result[i].age = first + i - 1
                   /\ result[i].year = call.birthYear + result[i].age
            /\ \A i \in 1 .. Len(result), j \in 1 .. Len(result) :
                   i < j => result[i].age < result[j].age
            /\ \A a \in first .. call.endAge :
                   Cardinality({ i \in 1 .. Len(result) :
                                     result[i].age = a }) = 1

C8_Witness ==
    /\ Returned("projectBenefits")
    /\ call.claimingAge = Rat(127, 2)
    /\ call.endAge = 66
    /\ call.birthYear = 1960 + MaxYearsOutside
    /\ Len(result) = 3
    /\ result[1].age = 64 /\ result[1].year = call.birthYear + 64
    /\ result[3].age = 66 /\ result[3].year = call.birthYear + 66

\* C9: calculateCumulativeBenefits returns one row per input row in the
\* same age order, with cumulative[0] = annualBenefit[0], cumulative[i] =
\* cumulative[i-1] + annualBenefit[i] and cumulativeAdjusted[i] =
\* cumulativeAdjusted[i-1] + 12 * inflationAdjusted[i]; when all benefits
\* are non-negative both running totals are non-decreasing.
C9_RunningTotals ==
    Returned("calculateCumulativeBenefits") =>
        LET benefits == call.benefits
            n == Len(benefits)
        IN  /\ Len(result) = n
            /\ \A i \in 1 .. n : result[i].age = benefits[i].age
            /\ n > 0 =>
                   /\ Eq(result[1].cumulative, benefits[1].annualBenefit)
                   /\ Eq(result[1].cumulativeAdjusted,
                         Times(Num(12), benefits[1].inflationAdjusted))
            /\ \A i \in 2 .. n :
                   /\ Eq(result[i].cumulative,
                         Plus(result[i - 1].cumulative,
                              benefits[i].annualBenefit))
                   /\ Eq(result[i].cumulativeAdjusted,
                         Plus(result[i - 1].cumulativeAdjusted,
                              Times(Num(12), benefits[i].inflationAdjusted)))
            /\ (\A i \in 1 .. n :
                    /\ Sign(benefits[i].annualBenefit) >= 0
                    /\ Sign(benefits[i].inflationAdjusted) >= 0)
                   => \A i \in 2 .. n :
                          /\ AtLeast(result[i].cumulative,
                                     result[i - 1].cumulative)
                          /\ AtLeast(result[i].cumulativeAdjusted,
                                     result[i - 1].cumulativeAdjusted)

C9_Witness ==
    /\ Returned("calculateCumulativeBenefits")
    /\ Len(call.benefits) = 3
    /\ \A i \in 1 .. 3 :
           /\ call.benefits[i].annualBenefit = Num(12)
           /\ call.benefits[i].inflationAdjusted =
                  Num(IF i = 2 THEN 0 ELSE 1)
    /\ call.benefits[1].age = 64
    /\ call.benefits[3].age = 62
    /\ result[3].cumulative = Num(36)
    /\ result[2].cumulativeAdjusted = Num(12)
    /\ result[3].cumulativeAdjusted = Num(24)
    /\ result[1].age = 64
    /\ result[3].age = 62

\* the common age range of the two series of a findBreakevenAge call
HasCommonRange ==
    /\ Len(call.scenario1Data) > 0
    /\ Len(call.scenario2Data) > 0
    /\ Max2(call.scenario1Data[1].age, call.scenario2Data[1].age)
           <= Min2(call.scenario1Data[Len(call.scenario1Data)].age,
                   call.scenario2Data[Len(call.scenario2Data)].age)

FirstCommonAge == Max2(call.scenario1Data[1].age, call.scenario2Data[1].age)

LastCommonAge ==
    Min2(call.scenario1Data[Len(call.scenario1Data)].age,
         call.scenario2Data[Len(call.scenario2Data)].age)

\* the value findBreakevenAge compares for a series at an age of the
\* common range: netValue when the row has one, else cumulativeAdjusted
ValueAt(data, age) ==
    LET row == data[CHOOSE i \in 1 .. Len(data) : data[i].age = age]
    IN  IF "netValue" \in DOMAIN row THEN row.netValue
        ELSE row.cumulativeAdjusted

\* series 1 is above series 2 at `age`
Above(age) ==
    MoreThan(ValueAt(call.scenario1Data, age),
             ValueAt(call.scenario2Data, age))

\* series 1 is below series 2 at `age`
Below(age) ==
    MoreThan(ValueAt(call.scenario2Data, age),
             ValueAt(call.scenario1Data, age))

\* the lead changes between the first and the last common age
LeadChanges ==
    \/ Above(FirstCommonAge) /\ Below(LastCommonAge)
    \/ Below(FirstCommonAge) /\ Above(LastCommonAge)

\* the result is an age strictly inside the common age range
StrictlyInsideCommonRange ==
    /\ ~result.isNull
    /\ MoreThan(result.age, Num(FirstCommonAge))
    /\ MoreThan(Num(LastCommonAge), result.age)

\* one series is strictly above the other at every common age
OneDominates ==
    \/ \A a \in FirstCommonAge .. LastCommonAge : Above(a)
    \/ \A a \in FirstCommonAge .. LastCommonAge : Below(a)

\* C10: for two series with a common age range, if one series is above the
\* other at the first common age and below it at the last, findBreakevenAge
\* returns a non-null age strictly inside the common age range; if one
\* series is strictly above the other at every common age it returns null.
C10_CrossingSeriesHaveBreakeven ==
    (Returned("findBreakevenAge") /\ HasCommonRange) =>
        /\ LeadChanges => StrictlyInsideCommonRange
        /\ OneDominates => result.isNull

\* the ages at which both series of a findBreakevenAge call have a row
CommonAges ==
    { a \in 0 .. 100 :
        /\ \E i \in 1 .. Len(call.scenario1Data) :
               call.scenario1Data[i].age = a
        /\ \E i \in 1 .. Len(call.scenario2Data) :
               call.scenario2Data[i].age = a }

\* series 1 minus series 2 at a common age
DiffAt(age) ==
    Minus(ValueAt(call.scenario1Data, age), ValueAt(call.scenario2Data, age))

\* the common ages a, a - 1 common too, with diff(a - 1) x diff(a) < 0
CrossoverAges ==
    { a \in CommonAges :
        /\ a - 1 \in CommonAges
        /\ Sign(DiffAt(a - 1)) * Sign(DiffAt(a)) < 0 }

\* (a - 1) + |diff(a - 1)| / |diff(a) - diff(a - 1)|
InterpolatedAt(a) ==
    Plus(Num(a - 1),
         Over(MathAbs(DiffAt(a - 1)),
              MathAbs(Minus(DiffAt(a), DiffAt(a - 1)))))

\* C11: findBreakevenAge returns the crossover of the lowest common age a
\* with diff(a - 1) x diff(a) < 0, namely
\* (a - 1) + |diff(a - 1)| / |diff(a) - diff(a - 1)|, which lies strictly
\* between a - 1 and a (later crossovers are ignored; diff is taken from
\* netValue when the row has one, else from cumulativeAdjusted); it returns
\* null when there is no such age, in particular when the series share no
\* age or one of them is empty.
C11_FirstCrossoverInterpolated ==
    Returned("findBreakevenAge") =>
        IF CrossoverAges = {} THEN result.isNull
        ELSE /\ ~result.isNull
             /\ Eq(result.age, InterpolatedAt(MinOf(CrossoverAges)))
             /\ Less(Num(MinOf(CrossoverAges) - 1), result.age)
             /\ Less(result.age, Num(MinOf(CrossoverAges)))

\* two crossovers, at 63 and at 64, of two series that carry a netValue:
\* the one at 63 is returned
C11_Witness ==
    /\ Returned("findBreakevenAge")
    /\ CrossoverAges = {63, 64}
    /\ "netValue" \in DOMAIN call.scenario1Data[1]
    /\ ~result.isNull
    /\ Less(Num(62), result.age)
    /\ Less(result.age, Num(63))

\* the FRA of the birth year of a call, as a decimal age
FRAOfBirthYear ==
    Plus(Num(C2_Table(call.birthYear).years),
         Rat(C2_Table(call.birthYear).months, 12))

\* C20: whenever claimingAge equals the FRA of the birth year,
\* calculateBenefit returns adjustmentPercentage = 0 and monthlyBenefit =
\* baseAmount, for every baseAmount.
C20_FullBenefitAtFRA ==
    (Returned("calculateBenefit") /\ Eq(call.claimingAge, FRAOfBirthYear)) =>
        /\ ~result.threw
        /\ Eq(result.adjustmentPercentage, Num(0))
        /\ Eq(result.monthlyBenefit, call.baseAmount)

C20_Witness ==
    /\ Returned("calculateBenefit")
    /\ call.birthYear = 1958
    /\ call.claimingAge = Rat(200, 3)
    /\ call.baseAmount = Num(3000)
    /\ result.adjustmentPercentage = Num(0)
    /\ result.monthlyBenefit = Num(3000)

ReturnedExample3 ==
    /\ Returned("projectBenefits")
    /\ call.startingBenefit = Num(3000)
    /\ call.claimingAge = Num(67)
    /\ call.endAge = 69
    /\ call.colaRate = Rat(5, 2)
    /\ call.birthYear = 1960

\* Math.round(100 * a): the amount a in cents
Cents(a) == MathFloor(Plus(Times(a, Num(100)), Rat(1, 2)))

\* C18 as stated: projectBenefits(3000, 67, 69, 2.5, birth year 1960)
\* returns rows for ages 67, 68, 69 with monthlyBenefit 3000, 3075 and, to
\* the cent, 3150.94.
C18_ThirdRow315094 ==
    ReturnedExample3 =>
        /\ Len(result) = 3
        /\ \A i \in 1 .. 3 : result[i].age = 66 + i
        /\ Eq(result[1].monthlyBenefit, Num(3000))
        /\ Eq(result[2].monthlyBenefit, Num(3075))
        /\ Cents(result[3].monthlyBenefit) = 315094

\* C18, amended: projectBenefits(3000, 67, 69, 2.5, birth year 1960) returns
\* rows for ages 67, 68, 69 with monthlyBenefit 3000, 3075 and 3151.875
\* (3000 x 1.025 x 1.025).
C18_ThirdRow3151875 ==
    ReturnedExample3 =>
        /\ Len(result) = 3
        /\ \A i \in 1 .. 3 : result[i].age = 66 + i
        /\ Eq(result[1].monthlyBenefit, Num(3000))
        /\ Eq(result[2].monthlyBenefit, Num(3075))
        /\ Eq(result[3].monthlyBenefit, Rat(3151875, 1000))

C18_Witness ==
    /\ ReturnedExample3
    /\ Len(result) = 3
    /\ result[3].age = 69
    /\ Cents(result[3].monthlyBenefit) = 315188

\* the projection of the spouse of a projectScenario call
SpouseProjection ==
    projectBenefits(
        calculateSpousalBenefit(call.scenario.spouseBenefitAmount,
                                call.scenario.benefitAmount,
                                call.scenario.spouseBirthYear,
                                call.scenario.spouseClaimingAge).monthlyBenefit,
        call.scenario.spouseClaimingAge, call.scenario.lifetimeAge,
        call.scenario.colaRate, call.scenario.spouseBirthYear,
        call.scenario.inflationRate)

\* the projection of the individual of a projectScenario call
IndividualProjection ==
    projectBenefits(
        calculateBenefit(call.scenario.benefitAmount, call.scenario.birthYear,
                         call.scenario.claimingAge).monthlyBenefit,
        call.scenario.claimingAge, call.scenario.lifetimeAge,
        call.scenario.colaRate, call.scenario.birthYear,
        call.scenario.inflationRate)

\* the annualBenefit of the row of a projection at an age, 0 without a row
\* at that age
AnnualAt(benefits, age) ==
    IF \E j \in 1 .. Len(benefits) : benefits[j].age = age
    THEN benefits[CHOOSE j \in 1 .. Len(benefits) :
                     benefits[j].age = age].annualBenefit
    ELSE Num(0)

\* the rows of a projectScenario result are those of the individual, with
\* the household amounts the spouse's projection gives
HouseholdOf(individual, spouse) ==
    /\ Len(result.yearlyBenefits) = Len(individual)
    /\ Len(result.cumulativeBenefits) = Len(individual)
    /\ \A i \in 1 .. Len(individual) :
           /\ result.yearlyBenefits[i].age = individual[i].age
           /\ result.cumulativeBenefits[i].age = individual[i].age
           /\ Eq(result.yearlyBenefits[i].annualBenefit,
                 individual[i].annualBenefit)
           /\ Eq(result.yearlyBenefits[i].householdAnnualBenefit,
                 Plus(individual[i].annualBenefit,
                      AnnualAt(spouse, individual[i].age)))
           /\ Eq(result.cumulativeBenefits[i].householdCumulative,
                 Plus(IF i = 1 THEN Num(0)
                      ELSE result.cumulativeBenefits[i - 1]
                               .householdCumulative,
                      result.yearlyBenefits[i].householdAnnualBenefit))

\* C12: for a scenario with includeSpouse and complete spouse data,
\* projectScenario produces rows only for the individual's ages; the row at
\* age a has householdAnnualBenefit = the individual's annualBenefit at a
\* plus the spouse's annualBenefit at the same age a (plus 0 when the
\* spouse's projection has no row at age a), and householdCumulative at
\* each row is the running sum of householdAnnualBenefit over the rows so
\* far.
C12_HouseholdJoinedByAge ==
    (Returned("projectScenario") /\ HasSpouseData(call.scenario)
        /\ ~result.threw) =>
        HouseholdOf(IndividualProjection, SpouseProjection)

\* the individual claims at 62 and the spouse at 64: the rows of ages 62
\* and 63 have no spouse amount, those of 64 and 65 have one
C12_Witness ==
    /\ Returned("projectScenario")
    /\ HasSpouseData(call.scenario)
    /\ call.scenario.claimingAge = Num(62)
    /\ call.scenario.spouseClaimingAge = Num(64)
    /\ call.scenario.lifetimeAge = 65
    /\ call.scenario.benefitAmount = Num(3000)
    /\ call.scenario.colaRate = Rat(5, 2)
    /\ ~result.threw
    /\ Len(result.yearlyBenefits) = 4
    /\ "spouseAnnualBenefit" \notin DOMAIN result.yearlyBenefits[2]
    /\ "spouseAnnualBenefit" \in DOMAIN result.yearlyBenefits[3]
    /\ Less(result.cumulativeBenefits[2].householdCumulative,
            result.cumulativeBenefits[4].householdCumulative)
    /\ Less(result.cumulativeBenefits[4].cumulative,
            result.cumulativeBenefits[4].householdCumulative)

\* the maximum benefit of the year of a projectMaxBenefitAtFRA call
CurrentMaxBenefit == IF call.currentYear = 2024 THEN 3822 ELSE 4018

\* the years from the year of the call to the year of FRA
YearsUntilFRA ==
    call.birthYear + C2_Table(call.birthYear).years - call.currentYear

\* the maximum benefit grown by `percent` per cent a year until FRA
GrownBy(percent) ==
    MathRound(Times(Num(CurrentMaxBenefit),
                    MathPow(Plus(Num(1), Over(percent, Num(100))),
                            YearsUntilFRA)))

\* C14: projectMaxBenefitAtFRA(birthDate, 2.5) takes 2.5 as a percentage:
\* when FRA is reached n >= 1 years after the current year the result is
\* the current-year maximum benefit grown by 2.5% per year for n years,
\* which is between 5500 and 5800 for a maximum of 4018 and n = 15.
C14_ColaRateIsPercentage ==
    (Returned("projectMaxBenefitAtFRA") /\ "colaRate" \in DOMAIN call
        /\ call.colaRate = Rat(5, 2) /\ YearsUntilFRA >= 1) =>
        /\ Eq(result, GrownBy(Rat(5, 2)))
        /\ (CurrentMaxBenefit = 4018 /\ YearsUntilFRA = 15) =>
               (Less(Num(5500), result) /\ Less(result, Num(5800)))

\* C15: projectMaxBenefitAtFRA(birthDate) with colaRate omitted returns
\* exactly the value of projectMaxBenefitAtFRA(birthDate, 2.5), for a birth
\* date whose FRA year lies after the current year.
C15_DefaultColaIsTwoAndAHalf ==
    (Returned("projectMaxBenefitAtFRA") /\ "colaRate" \notin DOMAIN call
        /\ YearsUntilFRA >= 1) =>
        Eq(result,
           projectMaxBenefitAtFRA(call.birthYear, Rat(5, 2), call.currentYear))

\* the name a calculateAllBreakevens call gives the scenario id, which is
\* the first or the second of its pair
NameInPair(id, position) ==
    IF id \in DOMAIN call.scenarioNames THEN call.scenarioNames[id]
    ELSE IF position = 1 THEN "Scenario 1" ELSE "Scenario 2"

\* the final-row value of the scenario id of a calculateAllBreakevens call
FinalOf(id) ==
    LET row == call.scenarios[id][Len(call.scenarios[id])]
    IN  IF "netValue" \in DOMAIN row THEN row.netValue
        ELSE row.cumulativeAdjusted

\* an entry without breakeven age calls the scenario with the higher final
\* value always better
DescribesHigherAsBetter(entry) ==
    /\ entry.description.kind = "is always better than"
    /\ \/ /\ entry.description.better = NameInPair(entry.scenarioId1, 1)
          /\ entry.description.worse = NameInPair(entry.scenarioId2, 2)
          /\ Less(FinalOf(entry.scenarioId2), FinalOf(entry.scenarioId1))
       \/ /\ entry.description.better = NameInPair(entry.scenarioId2, 2)
          /\ entry.description.worse = NameInPair(entry.scenarioId1, 1)
          /\ Less(FinalOf(entry.scenarioId1), FinalOf(entry.scenarioId2))

\* an entry with a breakeven age reports it rounded to the nearest integer
DescribesRoundedAge(entry) ==
    /\ entry.description.kind = "breaks even with"
    /\ entry.description.age.d = 1
    /\ LessEq(MathAbs(Minus(entry.description.age, entry.breakevenAge.age)),
              Rat(1, 2))

\* C13: for a map of n scenarios calculateAllBreakevens returns exactly one
\* entry per unordered pair of distinct scenario ids (n(n-1)/2 entries, no
\* scenario paired with itself, never both orders of a pair); an entry whose
\* breakevenAge is null describes as always better the scenario of the pair
\* whose final-row value (netValue, else cumulativeAdjusted) is the higher
\* one, and an entry with a breakevenAge reports that age rounded to the
\* nearest integer.
C13_OneEntryPerPair ==
    Returned("calculateAllBreakevens") =>
        /\ ~result.threw
        /\ 2 * Len(result.results) =
               Len(call.scenarios) * (Len(call.scenarios) - 1)
        /\ \A k \in 1 .. Len(result.results) :
               /\ result.results[k].scenarioId1 # result.results[k].scenarioId2
               /\ \A l \in 1 .. Len(result.results) :
                      k # l =>
                          {result.results[k].scenarioId1,
                           result.results[k].scenarioId2}
                          # {result.results[l].scenarioId1,
                             result.results[l].scenarioId2}
               /\ IF result.results[k].breakevenAge.isNull
                  THEN DescribesHigherAsBetter(result.results[k])
                  ELSE DescribesRoundedAge(result.results[k])

\* data is the cumulative series of the scenario of base amount 3000, birth
\* year 1960, COLA and inflation 2.5% that claims at claimingAge, projected
\* to a lifetime age
FromClaimingAt(data, claimingAge) ==
    /\ Len(data) > 0
    /\ data[1].age = claimingAge
    /\ data[Len(data)].age \in LifetimeAges
    /\ data = ClaimingSeries(claimingAge, data[Len(data)].age)

\* a findBreakevenAge call on the series of claiming at 62 and at 70, in
\* either order, projected to the same lifetime age
ComparesClaimingAt62And70 ==
    /\ Returned("findBreakevenAge")
    /\ \/ /\ FromClaimingAt(call.scenario1Data, 62)
          /\ FromClaimingAt(call.scenario2Data, 70)
       \/ /\ FromClaimingAt(call.scenario1Data, 70)
          /\ FromClaimingAt(call.scenario2Data, 62)
    /\ call.scenario1Data[Len(call.scenario1Data)].age =
           call.scenario2Data[Len(call.scenario2Data)].age

\* cumulativeAdjusted of the row of a series at an age
AdjustedAt(data, age) ==
    data[CHOOSE i \in 1 .. Len(data) : data[i].age = age].cumulativeAdjusted

\* the cumulativeAdjusted of series 1 minus that of series 2 at an age
AdjustedDiffAt(age) ==
    Minus(AdjustedAt(call.scenario1Data, age),
          AdjustedAt(call.scenario2Data, age))

\* age is the linear interpolation of the two cumulativeAdjusted series
\* between the ages a - 1 and a, where their difference changes sign
InterpolatesAdjustedAt(age, a) ==
    /\ Sign(AdjustedDiffAt(a - 1)) * Sign(AdjustedDiffAt(a)) < 0
    /\ Eq(age,
          Plus(Num(a - 1),
               Over(MathAbs(AdjustedDiffAt(a - 1)),
                    Plus(MathAbs(AdjustedDiffAt(a - 1)),
                         MathAbs(AdjustedDiffAt(a))))))

\* C19: for base amount 3000 and birth year 1960 (2100 a month when
\* claiming at 62, 3720 when claiming at 70), COLA 2.5%, inflation equal to
\* COLA and the same lifetime age, findBreakevenAge on the two cumulative
\* series returns a non-null age between 78 and 80 that is the linear
\* interpolation of the two cumulativeAdjusted series.
C19_BreakevenBetween78And80 ==
    ComparesClaimingAt62And70 =>
        /\ ~result.isNull
        /\ Less(Num(78), result.age)
        /\ Less(result.age, Num(80))
        /\ \E a \in 71 .. call.scenario1Data[Len(call.scenario1Data)].age :
               InterpolatesAdjustedAt(result.age, a)

\* to age 100 the breakeven age is 79 + 10/27
C19_Witness ==
    /\ ComparesClaimingAt62And70
    /\ call.scenario1Data[1].age = 62
    /\ Eq(call.scenario1Data[1].cumulativeAdjusted, Num(12 * 2100))
    /\ Eq(call.scenario2Data[1].cumulativeAdjusted, Num(12 * 3720))
    /\ call.scenario2Data[Len(call.scenario2Data)].age = 100
    /\ ~result.isNull
    /\ Eq(result.age, Rat(2143, 27))

\* the call of calculateCumulativeBenefits on the projection of 2100 a
\* month from claiming age 62 to age 100 (birth year 1960, COLA 2.5%) has
\* returned
AccumulatedAt62 ==
    /\ Returned("calculateCumulativeBenefits")
    /\ Len(call.benefits) = 39
    /\ call.benefits[39].age = 100
    /\ call.benefits =
           projectBenefits(Num(2100), Num(62), 100, Rat(5, 2), 1960,
                           Rat(5, 2))

\* the cumulative series of 3720 a month from claiming age 70 to age 100
CumAt70 ==
    calculateCumulativeBenefits(
        projectBenefits(Num(3720), Num(70), 100, Rat(5, 2), 1960, Rat(5, 2)))

C21_OutsideTableGets67 ==
    (Returned("calculateFRA") /\ call.birthYear \notin 1943 .. 1960) =>
        result = [years |-> 67, months |-> 0]

\* C21, amended: for a birth year outside 1943..1960 calculateFRA returns
\* {years: 67, months: 0} when the year is after 1960 and
\* {years: 66, months: 0} when it is before 1943, and it never raises.
C21_OutsideTableGets67Or66 ==
    (Returned("calculateFRA") /\ call.birthYear \notin 1943 .. 1960) =>
        result = IF call.birthYear > 1960
                 THEN [years |-> 67, months |-> 0]
                 ELSE [years |-> 66, months |-> 0]

C21_Witness ==
    /\ Returned("calculateFRA")
    /\ call.birthYear = 1961
    /\ result = [years |-> 67, months |-> 0]

\* C22: every returned value is freshly created: whatever a caller has
\* assigned to the FRA objects it was handed, a later calculateFRA returns
\* the original table value for every birth year, and a later
\* calculateBenefit returns what it returns with the original table, its fra
\* field included.
C22_ResultsShareNoState ==
    /\ Returned("calculateFRA") => result = calculateFRA(call.birthYear)
    /\ Returned("calculateBenefit") =>
            result = calculateBenefit(call.baseAmount, call.birthYear,
                                      call.claimingAge)

\* C23: a call of calculateBenefit, projectBenefits, applyInflation (baseYear
\* omitted) or projectMaxBenefitAtFRA with the arguments of the call before
\* returns what the call before returned, whatever the clock shows at each
\* of the two calls.
C23_SameArgumentsSameOutput ==
    (/\ pc = "done"
     /\ call.op \in {"calculateBenefit", "projectBenefits", "applyInflation",
                     "projectMaxBenefitAtFRA"}
     /\ earlier.returned
     /\ earlier.call = call) =>
        earlier.result = result

\* C24: no scenario whose colaRate or inflationRate is below 0 is accepted
\* and stored by saveScenario: the call throws and nothing is written.
C24_NoNegativeRateStored ==
    /\ \A id \in ScenarioIds :
            store[id].stored =>
                store[id].value.colaRate >= 0 /\ store[id].value.inflationRate >= 0
    /\ \A p \in 1 .. Len(inFlight) :
            (/\ inFlight[p].op = "saveScenario"
             /\ (inFlight[p].arg.colaRate < 0 \/ inFlight[p].arg.inflationRate < 0)) =>
                inFlight[p].pc = "threw"

\* the list contains every id at most once
ListedOnce == \A i, j \in 1 .. Len(list) : list[i] = list[j] => i = j

\* the list contains an id exactly when a scenario is stored under its key
ListMatchesStore ==
    \A id \in ScenarioIds : Includes(list, id) <=> store[id].stored

\* a step of the call made last, after which that call has thrown or is an
\* updateScenario that has not yet saved
StepOfCallBeforeItWrites ==
    /\ inFlight' # inFlight
    /\ inFlight'[Len(inFlight')].pc \in {"threw", "merge"}

\* C29: when the calls are made one at a time, after every call the list
\* contains every id at most once and contains an id exactly when a scenario
\* is stored under its key; and a saveScenario or updateScenario that throws
\* leaves the list and the stored scenarios as they were (no step of it
\* changes them).
C29_ListMatchesStoredScenarios ==
    /\ [](AllOver => (ListedOnce /\ ListMatchesStore))
    /\ [][StepOfCallBeforeItWrites => UNCHANGED << store, list >>]_vars

\* saved, saved again, and an update to a COLA rate of 21 that throws
C29_Witness ==
    /\ Len(inFlight) = 3
    /\ AllOver
    /\ inFlight[1].op = "saveScenario" /\ inFlight[1].pc = "returned"
    /\ inFlight[2].op = "saveScenario" /\ inFlight[2].pc = "returned"
    /\ inFlight[1].id = "id1" /\ inFlight[2].id = "id1"
    /\ inFlight[3] = [op |-> "updateScenario", id |-> "id1",
                      arg |-> [colaRate |-> 21], pc |-> "threw",
                      ids |-> << >>, existing |-> store["id1"]]
    /\ list = << "id1" >>
    /\ store["id1"] = Entry(inFlight[2].arg)

\* a deleteScenario(id) was called
Deleted(id) ==
    \E p \in 1 .. Len(inFlight) :
        inFlight[p].op = "deleteScenario" /\ inFlight[p].id = id

\* C30: when saveScenario and deleteScenario calls for different ids have
\* run concurrently and all are over, every stored scenario (saved and not
\* deleted) has its id in the list and no deleted id is in the list.
C30_ListConsistentAfterConcurrentCalls ==
    AllOver =>
        \A id \in ScenarioIds :
            /\ store[id].stored => Includes(list, id)
            /\ Deleted(id) => ~Includes(list, id)

\* whether two results of the breakeven functions are both null or the
\* same age
SameBreakeven(a, b) ==
    /\ a.isNull = b.isNull
    /\ ~a.isNull => Eq(a.age, b.age)

\* C25: with withInvestment = false and withInflation = true,
\* findBreakevenAgeWithToggles returns for every pair of cumulative series
\* exactly what findBreakevenAge returns for the pair: both null, or the
\* same age.
C25_TogglesAgreeWithFindBreakevenAge ==
    (/\ Returned("findBreakevenAgeWithToggles")
     /\ ~call.withInvestment
     /\ call.withInflation) =>
        SameBreakeven(result,
                      findBreakevenAge(call.scenario1Data,
                                       call.scenario2Data))

\* an interpolated age found between a series with net values and one
\* without
C25_Witness ==
    /\ Returned("findBreakevenAgeWithToggles")
    /\ ~call.withInvestment
    /\ call.withInflation
    /\ Len(call.scenario1Data) > 0
    /\ "netValue" \in DOMAIN call.scenario1Data[1]
    /\ Len(call.scenario2Data) > 0
    /\ "netValue" \notin DOMAIN call.scenario2Data[1]
    /\ ~result.isNull
    /\ ~Eq(result.age, FloorNum(result.age))
    /\ SameBreakeven(result,
                     findBreakevenAge(call.scenario1Data,
                                      call.scenario2Data))

\* the sum of earlyBenefit x (1 + growthRate/100)^(currentAge -
\* earlyClaimingAge - i) over the years i = first, first + 1, ... that lie
\* below `years`
RECURSIVE CompoundedSum(_, _, _, _, _, _)
CompoundedSum(early, benefit, current, rate, years, first) ==
    IF ~Less(Num(first), years) THEN Num(0)
    ELSE Plus(Times(benefit,
                    PowerOfGrowth(Plus(Num(1), Over(rate, Num(100))),
                                  Minus(Minus(current, early), Num(first)))),
              CompoundedSum(early, benefit, current, rate, years, first + 1))

\* C26: calculateOpportunityCost returns 0 whenever currentAge <
\* delayedClaimingAge; otherwise it returns the sum, over each of the
\* (delayedClaimingAge - earlyClaimingAge) years i = 0, 1, ... of early
\* benefits, of earlyBenefit x (1 + growthRate/100)^(currentAge -
\* earlyClaimingAge - i), which for growthRate = 0 is earlyBenefit x
\* (delayedClaimingAge - earlyClaimingAge).
C26_OpportunityCostIsCompoundedSum ==
    Returned("calculateOpportunityCost") =>
        IF Less(call.currentAge, call.delayedClaimingAge)
        THEN Eq(result, Num(0))
        ELSE /\ Eq(result,
                   CompoundedSum(call.earlyClaimingAge, call.earlyBenefit,
                                 call.currentAge, call.growthRate,
                                 Minus(call.delayedClaimingAge,
                                       call.earlyClaimingAge), 0))
             /\ Eq(call.growthRate, Num(0)) =>
                    Eq(result,
                       Times(call.earlyBenefit,
                             Minus(call.delayedClaimingAge,
                                   call.earlyClaimingAge)))

\* the scenario without its spouse: the spouse switch off and the three
\* spouse fields absent
WithoutSpouse(scenario) ==
    [f \in DOMAIN scenario \ {"spouseBirthYear", "spouseBenefitAmount",
                              "spouseClaimingAge"} |->
        IF f = "includeSpouse" THEN FALSE ELSE scenario[f]]

\* the spouse data kept and the spouse switch off
SpouseSwitchedOff(scenario) == [scenario EXCEPT !.includeSpouse = FALSE]

\* the spouse fields kept and the spouse's amount and claiming age changed
\* (to the scenario's own claiming age and amount)
OtherSpouse(scenario) ==
    IF HasSpouseData(scenario)
    THEN [scenario EXCEPT !.spouseBenefitAmount = scenario.benefitAmount,
                          !.spouseClaimingAge = scenario.claimingAge]
    ELSE scenario

\* two projections that were returned have the same rows as far as age,
\* cumulative and cumulativeAdjusted go
SameComparedRows(a, b) ==
    /\ Len(a.cumulativeBenefits) = Len(b.cumulativeBenefits)
    /\ \A i \in 1 .. Len(a.cumulativeBenefits) :
        /\ a.cumulativeBenefits[i].age = b.cumulativeBenefits[i].age
        /\ Eq(a.cumulativeBenefits[i].cumulative,
              b.cumulativeBenefits[i].cumulative)
        /\ Eq(a.cumulativeBenefits[i].cumulativeAdjusted,
              b.cumulativeBenefits[i].cumulativeAdjusted)

\* the projection, if projectScenario returns one for the other scenario
\* too, has the same compared rows
SameAsProjectionOf(projection, other) ==
    ~other.threw => SameComparedRows(projection, other)

\* C27: the cumulative and cumulativeAdjusted series returned by
\* projectScenario do not depend on the spouse: scenarios that differ only
\* in includeSpouse, spouseBirthDate, spouseBenefitAmount or
\* spouseClaimingAge yield identical age, cumulative and cumulativeAdjusted
\* in every row.  Every returned projection is compared with those of the
\* scenario without spouse, with the spouse switched off and with another
\* spouse; without a spouse projectScenario returns whenever it returns
\* with one.
C27_SeriesIndependentOfSpouse ==
    (Returned("projectScenario") /\ ~result.threw) =>
        /\ ~projectScenario(WithoutSpouse(call.scenario)).threw
        /\ SameComparedRows(result,
                            projectScenario(WithoutSpouse(call.scenario)))
        /\ SameAsProjectionOf(result,
                              projectScenario(SpouseSwitchedOff(call.scenario)))
        /\ SameAsProjectionOf(result,
                              projectScenario(OtherSpouse(call.scenario)))

\* a projection with a spouse whose benefits are part of the household
\* total in some row
C27_Witness ==
    /\ Returned("projectScenario")
    /\ ~result.threw
    /\ HasSpouseData(call.scenario)
    /\ \E i \in 1 .. Len(result.cumulativeBenefits) :
        /\ Less(result.cumulativeBenefits[i].cumulative,
                result.cumulativeBenefits[i].householdCumulative)
        /\ Sign(result.cumulativeBenefits[i].cumulative) > 0
    /\ SameComparedRows(result,
                        projectScenario(WithoutSpouse(call.scenario)))

\* whether a claiming age is one of the whole-year ages 62, 63, ..., 70
WholeYearAge(claimingAge) ==
    \E a \in MIN_CLAIMING_AGE .. MAX_CLAIMING_AGE : Eq(claimingAge, Num(a))

\* C28: for every birth year and every positive baseAmount, the
\* monthlyBenefit returned by calculateBenefit strictly increases with
\* claimingAge over the whole-year ages 62, 63, ..., 70: the benefit
\* returned for a whole-year age is below that of every later whole-year
\* age.
C28_BenefitIncreasesWithClaimingAge ==
    (/\ Returned("calculateBenefit")
     /\ Sign(call.baseAmount) > 0
     /\ WholeYearAge(call.claimingAge)) =>
        /\ ~result.threw
        /\ \A a \in MIN_CLAIMING_AGE .. MAX_CLAIMING_AGE :
            Less(call.claimingAge, Num(a)) =>
                Less(result.monthlyBenefit,
                     calculateBenefit(call.baseAmount, call.birthYear,
                                      Num(a)).monthlyBenefit)

\* claiming at 69, above every FRA: the benefit at 70 is still higher
C28_Witness ==
    /\ Returned("calculateBenefit")
    /\ call.birthYear = 1955
    /\ Eq(call.baseAmount, Num(1500))
    /\ Eq(call.claimingAge, Num(69))
    /\ Less(call.baseAmount, result.monthlyBenefit)
    /\ Less(result.monthlyBenefit,
            calculateBenefit(call.baseAmount, call.birthYear,
                             Num(70)).monthlyBenefit)

====
